---- MODULE Spec2Model ----
(***************************************************************************)
(* Model of the request execution pipeline of the TripAdvisor client:      *)
(* ConfigManager (config.ts), the error classes (errors.ts) and            *)
(* HttpClient (http-client.ts).                                            *)
(*                                                                         *)
(* JavaScript strings are strings; String.includes, the regular            *)
(* expression of isRetryableError and the query-string encoding are        *)
(* computed on their characters with SubSeq.  A JavaScript value is a      *)
(* record [t, s, n, o]: t is the type tag, s the text of a string, n the   *)
(* number, o the entries of an object.                                     *)
(***************************************************************************)
EXTENDS Integers, Sequences, FiniteSets, TLC

----------------------------------------------------------------------------
(* String literals of the source *)

S_fetch == "fetch"
S_network == "network"
S_timeout == "timeout"
S_AbortError == "AbortError"
S_HTTP == "HTTP "
S_colon == ": "
S_UnknownApiError == "Unknown API error"
S_InvalidRequestPayload == "Invalid request payload: "
S_InvalidResponseFormat == "Invalid response format: "
S_DefaultBaseUrl == "https://api.content.tripadvisor.com/api/v1"
S_en == "en"
S_USD == "USD"
S_key == "key"
S_ApiKeyRequired == "TripAdvisor API key is required. Set TRIPADVISOR_API_KEY environment variable or pass apiKey in config."
S_objectObject == "[object Object]"
S_undefined == "undefined"
S_null == "null"
S_true == "true"
S_false == "false"
S_NaN == "NaN"

Digits == "0123456789"

DigitSet == {SubSeq(Digits, i, i) : i \in 1..10}

----------------------------------------------------------------------------
(* JavaScript values *)

Undef == [t |-> "undefined", s |-> "", n |-> 0, o |-> <<>>]

Null == [t |-> "null", s |-> "", n |-> 0, o |-> <<>>]

NaN == [t |-> "nan", s |-> "", n |-> 0, o |-> <<>>]

Str(chars) == [t |-> "string", s |-> chars, n |-> 0, o |-> <<>>]

Num(k) == [t |-> "number", s |-> "", n |-> k, o |-> <<>>]

Bool(b) == [t |-> IF b THEN "true" ELSE "false", s |-> "", n |-> 0, o |-> <<>>]

\* an object literal: its entries, in insertion order, as [k |-> key, v |-> value]
Obj(entries) == [t |-> "object", s |-> "", n |-> 0, o |-> entries]

\* an array literal: its elements as entries keyed by their index
Arr(entries) == [t |-> "array", s |-> "", n |-> 0, o |-> entries]

KV(key, value) == [k |-> key, v |-> value]

\* ToBoolean: undefined, null, NaN, false, 0 and "" are falsy
Truthy(v) ==
  CASE v.t = "undefined" -> FALSE
    [] v.t = "null" -> FALSE
    [] v.t = "nan" -> FALSE
    [] v.t = "false" -> FALSE
    [] v.t = "number" -> v.n # 0
    [] v.t = "string" -> v.s # ""
    [] OTHER -> TRUE

HasKey(entries, key) == \E i \in 1..Len(entries) : entries[i].k = key

\* property read obj[key]: the last entry written under the key, else undefined
Lookup(entries, key) ==
  IF HasKey(entries, key)
    THEN entries[CHOOSE i \in 1..Len(entries) : entries[i].k = key].v
    ELSE Undef

\* obj?.key on any value: undefined unless obj is an object holding the key
Get(v, key) == IF v.t \in {"object", "array"} THEN Lookup(v.o, key) ELSE Undef

RECURSIVE NatToChars(_)
NatToChars(k) ==
  IF k < 10 THEN SubSeq(Digits, k + 1, k + 1)
  ELSE NatToChars(k \div 10) \o SubSeq(Digits, (k % 10) + 1, (k % 10) + 1)

\* Number.prototype.toString for the integers of the model
NumToChars(k) == IF k < 0 THEN "-" \o NatToChars(0 - k) ELSE NatToChars(k)

\* String(v) / v.toString() / template interpolation of v
ToChars(v) ==
  CASE v.t = "string" -> v.s
    [] v.t = "number" -> NumToChars(v.n)
    [] v.t = "true" -> S_true
    [] v.t = "false" -> S_false
    [] v.t = "null" -> S_null
    [] v.t = "nan" -> S_NaN
    [] v.t = "object" -> S_objectObject
    [] v.t = "array" -> ""
    [] OTHER -> S_undefined

\* String.prototype.includes
Includes(hay, needle) ==
  \E i \in 0..(Len(hay) - Len(needle)) : SubSeq(hay, i + 1, i + Len(needle)) = needle

----------------------------------------------------------------------------
(* errors.ts: the error classes.  cls is the class, name the .name         *)
(* property, message the .message property.  cause and status record what  *)
(* happened in the attempt that raised the error (the HTTP status, 0 when  *)
(* there is none); the code never reads them.                              *)

Err(cls, name, message, code, type, isApi, cause, status) ==
  [cls |-> cls, name |-> name, message |-> message, code |-> code,
   type |-> type, isApiError |-> isApi, cause |-> cause, status |-> status]

\* the value of `lastError` before any assignment (declared, never assigned)
NoError == Err("undefined", "", "", Undef, Undef, FALSE, "none", 0)

\* new TripAdvisorError(message, code, type, isApiError)
TripAdvisorError(message, code, type, isApi) ==
  Err("TripAdvisorError", "TripAdvisorError", message, code, type, isApi, "api", 0)

\* new ConfigurationError(message)
ConfigurationError(message) ==
  Err("ConfigurationError", "ConfigurationError", message, Undef, Undef, FALSE, "config", 0)

\* new ValidationError(message)
ValidationError(message, cause) ==
  Err("ValidationError", "ValidationError", message, Undef, Undef, FALSE, cause, 0)

K_error == "error"
K_Message == "Message"
K_message == "message"
K_code == "code"
K_type == "type"
K_data == "data"

\* TripAdvisorError.isApiError(response)
isApiError(response) ==
  Truthy(Get(response, K_error)) \/ Truthy(Get(response, K_Message))

\* TripAdvisorError.fromApiResponse(response)
fromApiResponse(response) ==
  LET error == Get(response, K_error)
      Message == Get(response, K_Message)
  IN IF Truthy(error) /\ error.t \in {"object", "array"}
       THEN TripAdvisorError(
              IF Truthy(Get(error, K_message))
                THEN ToChars(Get(error, K_message)) ELSE S_UnknownApiError,
              Get(error, K_code), Get(error, K_type), TRUE)
     ELSE IF Truthy(Message)
       THEN TripAdvisorError(ToChars(Message), Get(response, K_code),
                             Get(response, K_type), TRUE)
     ELSE TripAdvisorError(S_UnknownApiError, Undef, Undef, TRUE)

----------------------------------------------------------------------------
(* config.ts: ConfigManager.  A configuration object is a function from    *)
(* its keys to values; a Partial<TripAdvisorConfig> has a subset of the    *)
(* keys.                                                                   *)

DefaultTimeout == 30000

DefaultRetries == 3

DefaultRetryDelay == 1000

DEFAULT_CONFIG ==
  [baseUrl |-> Str(S_DefaultBaseUrl), language |-> Str(S_en), currency |-> Str(S_USD),
   timeout |-> Num(DefaultTimeout), retries |-> Num(DefaultRetries),
   retryDelay |-> Num(DefaultRetryDelay)]

\* the object spread {...a, ...b}
Spread(a, b) ==
  [key \in (DOMAIN a) \cup (DOMAIN b) |-> IF key \in DOMAIN b THEN b[key] ELSE a[key]]

\* config?.key
Field(config, key) == IF key \in DOMAIN config THEN config[key] ELSE Undef

\* a faulty variant: the environment value is not consulted
validateAndMergeConfig_NoEnv(config, envKey) ==
  LET apiKey == Field(config, "apiKey")
  IN IF ~Truthy(apiKey)
       THEN [threw |-> TRUE, value |-> config]
       ELSE [threw |-> FALSE,
             value |-> Spread(Spread(DEFAULT_CONFIG, config), [apiKey |-> apiKey])]

\* a faulty variant: the empty credential is not rejected
validateAndMergeConfig_NoCheck(config, envKey) ==
  LET apiKey == IF Truthy(Field(config, "apiKey")) THEN Field(config, "apiKey") ELSE envKey
  IN [threw |-> FALSE,
      value |-> Spread(Spread(DEFAULT_CONFIG, config), [apiKey |-> apiKey])]

\* a faulty variant: the defaults are spread over the given fields
validateAndMergeConfig_DefaultsWin(config, envKey) ==
  LET apiKey == IF Truthy(Field(config, "apiKey")) THEN Field(config, "apiKey") ELSE envKey
  IN IF ~Truthy(apiKey)
       THEN [threw |-> TRUE, value |-> config]
       ELSE [threw |-> FALSE,
             value |-> Spread(Spread(config, DEFAULT_CONFIG), [apiKey |-> apiKey])]

\* a faulty variant: the environment value is preferred to the explicit one
validateAndMergeConfig_EnvFirst(config, envKey) ==
  LET apiKey == IF Truthy(envKey) THEN envKey ELSE Field(config, "apiKey")
  IN IF ~Truthy(apiKey)
       THEN [threw |-> TRUE, value |-> config]
       ELSE [threw |-> FALSE,
             value |-> Spread(Spread(DEFAULT_CONFIG, config), [apiKey |-> apiKey])]

\* ConfigManager.validateAndMergeConfig(config), with process.env.TRIPADVISOR_API_KEY
\* = envKey: threw is TRUE when it throws ConfigurationError, else value is returned
validateAndMergeConfig(config, envKey) ==
  LET apiKey == IF Truthy(Field(config, "apiKey")) THEN Field(config, "apiKey") ELSE envKey
  IN IF ~Truthy(apiKey)
       THEN [threw |-> TRUE, value |-> config]
       ELSE [threw |-> FALSE,
             value |-> Spread(Spread(DEFAULT_CONFIG, config), [apiKey |-> apiKey])]

----------------------------------------------------------------------------
(* zod: schema.parse(value) for the object schemas the client uses.  A     *)
(* shape is the sequence of the declared fields, in declaration order:     *)
(* [k, type, optional, nullable, dflt]; dflt = Undef when the field        *)
(* declares no default.  Keys the shape does not declare are stripped      *)
(* (z.object's default).                                                   *)

FieldSpec(key, type, optional, nullable, dflt) ==
  [k |-> key, type |-> type, optional |-> optional, nullable |-> nullable, dflt |-> dflt]

\* zod's name of a value's type (ZodParsedType)
ParsedType(v) ==
  CASE v.t \in {"true", "false"} -> "boolean"
    [] v.t = "string" -> "string"
    [] v.t = "number" -> "number"
    [] v.t = "nan" -> "nan"
    [] v.t = "object" -> "object"
    [] v.t = "array" -> "array"
    [] v.t = "null" -> S_null
    [] OTHER -> S_undefined

TypeChars(type) ==
  CASE type = "string" -> "string"
    [] type = "number" -> "number"
    [] type = "boolean" -> "boolean"
    [] type = "array" -> "array"
    [] type = "object" -> "object"
    [] OTHER -> "any"

\* whether one field's input value x is accepted by its declaration f
FieldOk(f, x) ==
  CASE x.t = "undefined" -> f.optional \/ f.dflt # Undef \/ f.type = "any"
    [] x.t = "null" -> f.nullable \/ f.type = "any"
    [] OTHER -> f.type = "any" \/ ParsedType(x) = TypeChars(f.type)

\* a faulty variant: a declared default is not applied
FieldOut_NoDefault(f, x) == x

\* the value a field contributes to the parsed output
FieldOut(f, x) == IF x.t = "undefined" /\ f.dflt # Undef THEN f.dflt ELSE x

\* JSON.stringify of one ZodIssue (invalid_type) at path `key` ("" for the root);
\* the line breaks and indentation of the real text are left out
IssueChars(type, x, key) ==
  "{\"code\":\"invalid_type\",\"expected\":\"" \o TypeChars(type)
  \o "\",\"received\":\"" \o ParsedType(x)
  \o "\",\"path\":[" \o (IF key = "" THEN "" ELSE "\"" \o key \o "\"")
  \o "],\"message\":\""
  \o (IF x.t = "undefined" THEN "Required"
      ELSE "Expected " \o TypeChars(type) \o ", received " \o ParsedType(x))
  \o "\"}"

\* a field every value of the object must carry / may leave out
Required(key, type) == FieldSpec(key, type, FALSE, FALSE, Undef)

Optional(key, type) == FieldSpec(key, type, TRUE, FALSE, Undef)

\* a schema that is not an inline z.object: the value itself has the named type
Named(type) == <<FieldSpec("", type, FALSE, FALSE, Undef)>>

\* the types that are checked without looking up another schema
PrimTypes == {"string", "number", "boolean", "array", "object", "any"}

----------------------------------------------------------------------------
(* types/common.ts *)

\* the two error envelopes: z.object({ error: z.object({...}) }) and
\* z.object({ Message, type?, code? })
ErrorDetailSchema ==
  <<Required("message", "string"), Optional("type", "string"), Optional("code", "number")>>

ErrorEnvelopeSchema == <<Required("error", "ErrorDetail")>>

MessageEnvelopeSchema ==
  <<Required("Message", "string"), Optional("type", "string"), Optional("code", "number")>>

TripAdvisorErrorSchema == <<"ErrorEnvelope", "MessageEnvelope">>

TripadvisorImageSchema ==
  <<Required("url", "string"), Required("width", "number"), Required("height", "number")>>

TripAdvisorCategorySchema == <<"hotels", "attractions", "restaurants", "geos">>

NameSchema == <<Required("name", "string"), Required("localized_name", "string")>>

AddressObjectSchema ==
  <<Optional("street1", "string"), Optional("street2", "string"),
    Required("city", "string"), Required("state", "string"),
    Required("country", "string"), Optional("postalcode", "string"),
    Optional("address_string", "string")>>

AncestorSchema ==
  <<Optional("abbrv", "string"), Required("level", "string"),
    Required("name", "string"), Required("location_id", "string")>>

PeriodSchema == <<Required("day", "number"), Required("time", "string")>>

----------------------------------------------------------------------------
(* types/search.ts *)

LocationSearchPayloadSchema ==
  <<Required("searchQuery", "string"), Optional("category", "TripAdvisorCategory"),
    Optional("phone", "string"), Optional("address", "string"),
    Optional("latLong", "string"), Optional("radius", "number.min(0)"),
    Optional("radiusUnit", "string"),
    FieldSpec("language", "string", TRUE, FALSE, Str(S_en))>>

LocationSearchResponseDataSchema ==
  <<Required("location_id", "string"), Required("name", "string"),
    Optional("distance", "string"), Optional("bearing", "string"),
    Required("address_obj", "AddressObject")>>

\* z.object({ data: LocationSearchResponseDataSchema.array() })
LocationSearchDataEnvelope == <<Required("data", "LocationSearchResponseData[]")>>

LocationSearchResponseSchema == <<"LocationSearchDataEnvelope", "TripAdvisorError">>

----------------------------------------------------------------------------
(* types/details.ts *)

RankingDataSchema ==
  <<Required("geo_location_id", "string"), Required("ranking_string", "string"),
    Required("geo_location_name", "string"), Required("ranking_out_of", "string"),
    Required("ranking", "string")>>

\* the element of TripTypesSchema: NameSchema.extend({ value })
TripTypeSchema == NameSchema \o <<Required("value", "string")>>

AwardImagesSchema ==
  <<Optional("tiny", "string"), Optional("small", "string"), Optional("large", "string")>>

\* the element of AwardsSchema
AwardSchema ==
  <<Required("award_type", "string"), Required("year", "string"),
    Required("images", "AwardImages"), Required("categories", "string[]"),
    Required("display_name", "string")>>

LocationDetailsPayloadSchema ==
  <<FieldSpec("language", "string", TRUE, FALSE, Str(S_en)),
    FieldSpec("currency", "string", TRUE, FALSE, Str(S_USD))>>

ReviewRatingCountSchema ==
  <<Required("1", "string"), Required("2", "string"), Required("3", "string"),
    Required("4", "string"), Required("5", "string")>>

NeighborhoodSchema == <<Required("location_id", "string"), Required("name", "string")>>

LocationDetailsBaseResponseSchema ==
  <<Required("location_id", "string"), Required("name", "string"),
    Required("web_url", "string"), Optional("description", "string"),
    Required("address_obj", "AddressObject"), Required("ancestors", "Ancestor[]"),
    Required("latitude", "string"), Required("longitude", "string"),
    Required("timezone", "string"), Optional("email", "string"),
    Optional("phone", "string"), Optional("website", "string"),
    Optional("write_review", "string"), Optional("ranking_data", "RankingData"),
    Optional("rating", "string"), Optional("rating_image_url", "string"),
    Optional("num_reviews", "string"),
    Optional("review_rating_count", "ReviewRatingCount"),
    Optional("subratings", "any"), Optional("photo_count", "string"),
    Optional("see_all_photos", "string"), Optional("price_level", "string"),
    Required("category", "Name"), Required("subcategory", "Name[]"),
    Required("neighborhood_info", "Neighborhood[]"), Required("awards", "Award[]")>>

LocationDetailsHotelResponseSchema ==
  LocationDetailsBaseResponseSchema \o
  <<Required("amenities", "string[]"), Required("parent_brand", "string"),
    Required("brand", "string"), Required("styles", "string[]"),
    Required("trip_types", "TripType[]")>>

HoursPeriodSchema == <<Required("open", "Period"), Required("close", "Period")>>

HoursSchema == <<Required("periods", "HoursPeriod[]"), Required("weekday_text", "string[]")>>

\* the element of `groups`: NameSchema.extend({ categories: z.array(NameSchema) })
GroupSchema == NameSchema \o <<Required("categories", "Name[]")>>

LocationDetailsAttractionResponseSchema ==
  LocationDetailsBaseResponseSchema \o
  <<Optional("hours", "Hours"), Required("groups", "Group[]"),
    Required("trip_types", "TripType[]")>>

LocationDetailsRestaurantResponseSchema ==
  LocationDetailsBaseResponseSchema \o
  <<Optional("hours", "Hours"), Required("features", "string[]"),
    Required("cuisine", "Name[]"), Required("trip_types", "TripType[]")>>

LocationDetailsGeosResponseSchema == LocationDetailsBaseResponseSchema

LocationDetailsResponseSchema ==
  <<"LocationDetailsHotelResponse", "LocationDetailsAttractionResponse",
    "LocationDetailsRestaurantResponse", "LocationDetailsGeosResponse">>

----------------------------------------------------------------------------
(* types/reviews.ts *)

TripAdvisorReviewSchema ==
  <<Required("id", "string"), Required("lang", "string"), Required("text", "string"),
    Required("title", "string"), Required("published_date", "string")>>

UserLocationSchema == <<Required("id", "string"), Optional("location", "string")>>

AvatarSchema ==
  <<Required("thumbnail", "string"), Required("small", "string"),
    Required("medium", "string"), Required("large", "string"),
    Required("original", "string")>>

TripAdvisorUserSchema ==
  <<Required("username", "string"), Required("user_location", "UserLocation"),
    Optional("review_count", "number"), Optional("reviewer_badge", "string"),
    Optional("avatar", "Avatar")>>

LocationReviewsPayloadSchema ==
  <<Optional("language", "string"), Optional("limit", "number"),
    Optional("offset", "number")>>

\* owner_response: TripAdvisorReviewSchema.extend({ author })
OwnerResponseSchema == TripAdvisorReviewSchema \o <<Required("author", "string")>>

LocationReviewsDataSchema ==
  TripAdvisorReviewSchema \o
  <<Required("location_id", "string"), Required("rating", "string"),
    Required("helpful_votes", "number"), Required("rating_image_url", "string"),
    Required("url", "string"), Required("trip_type", "string"),
    Required("travel_date", "string"), Optional("owner_response", "OwnerResponse"),
    Optional("is_machine_translated", "boolean"), Required("user", "TripAdvisorUser"),
    Optional("subratings", "any")>>

LocationReviewsDataEnvelope == <<Required("data", "LocationReviewsData[]")>>

LocationReviewsResponseSchema == <<"LocationReviewsDataEnvelope", "TripAdvisorError">>

----------------------------------------------------------------------------
(* types/photos.ts *)

LocationPhotosImageSchema ==
  <<Optional("thumbnail", "TripadvisorImage"), Optional("small", "TripadvisorImage"),
    Optional("medium", "TripadvisorImage"), Optional("large", "TripadvisorImage"),
    Optional("original", "TripadvisorImage")>>

LocationPhotosDataSchema ==
  <<Required("id", "string"), Required("is_blessed", "boolean"),
    Required("album", "string"), Required("caption", "string"),
    Required("published_date", "string"), Required("images", "LocationPhotosImage"),
    Required("source", "Name"), Required("user", "any")>>

LocationPhotosDataEnvelope == <<Required("data", "LocationPhotosData[]")>>

LocationPhotosResponseSchema == <<"LocationPhotosDataEnvelope", "TripAdvisorError">>

----------------------------------------------------------------------------
(* zod: parsing a value under a named type *)

\* the alternatives of the z.union a type names (none: the type is no union)
UnionSchema(type) ==
  CASE type = "TripAdvisorError" -> TripAdvisorErrorSchema
    [] type = "LocationSearchResponse" -> LocationSearchResponseSchema
    [] type = "LocationDetailsResponse" -> LocationDetailsResponseSchema
    [] type = "LocationReviewsResponse" -> LocationReviewsResponseSchema
    [] type = "LocationPhotosResponse" -> LocationPhotosResponseSchema
    [] OTHER -> <<>>

\* whether a type names a z.union
IsUnion(type) ==
  type \in {"TripAdvisorError", "LocationSearchResponse", "LocationDetailsResponse",
            "LocationReviewsResponse", "LocationPhotosResponse"}

\* the fields of the z.object a type names
ObjectSchema(type) ==
  CASE type = "ErrorDetail" -> ErrorDetailSchema
    [] type = "ErrorEnvelope" -> ErrorEnvelopeSchema
    [] type = "MessageEnvelope" -> MessageEnvelopeSchema
    [] type = "TripadvisorImage" -> TripadvisorImageSchema
    [] type = "Name" -> NameSchema
    [] type = "AddressObject" -> AddressObjectSchema
    [] type = "Ancestor" -> AncestorSchema
    [] type = "Period" -> PeriodSchema
    [] type = "LocationSearchResponseData" -> LocationSearchResponseDataSchema
    [] type = "LocationSearchDataEnvelope" -> LocationSearchDataEnvelope
    [] type = "RankingData" -> RankingDataSchema
    [] type = "TripType" -> TripTypeSchema
    [] type = "AwardImages" -> AwardImagesSchema
    [] type = "Award" -> AwardSchema
    [] type = "ReviewRatingCount" -> ReviewRatingCountSchema
    [] type = "Neighborhood" -> NeighborhoodSchema
    [] type = "HoursPeriod" -> HoursPeriodSchema
    [] type = "Hours" -> HoursSchema
    [] type = "Group" -> GroupSchema
    [] type = "LocationDetailsHotelResponse" -> LocationDetailsHotelResponseSchema
    [] type = "LocationDetailsAttractionResponse" -> LocationDetailsAttractionResponseSchema
    [] type = "LocationDetailsRestaurantResponse" -> LocationDetailsRestaurantResponseSchema
    [] type = "LocationDetailsGeosResponse" -> LocationDetailsGeosResponseSchema
    [] type = "TripAdvisorReview" -> TripAdvisorReviewSchema
    [] type = "UserLocation" -> UserLocationSchema
    [] type = "Avatar" -> AvatarSchema
    [] type = "TripAdvisorUser" -> TripAdvisorUserSchema
    [] type = "OwnerResponse" -> OwnerResponseSchema
    [] type = "LocationReviewsData" -> LocationReviewsDataSchema
    [] type = "LocationReviewsDataEnvelope" -> LocationReviewsDataEnvelope
    [] type = "LocationPhotosImage" -> LocationPhotosImageSchema
    [] type = "LocationPhotosData" -> LocationPhotosDataSchema
    [] type = "LocationPhotosDataEnvelope" -> LocationPhotosDataEnvelope
    [] OTHER -> <<>>

\* `X[]` names z.array(X)
IsArrayOf(type) == Len(type) > 2 /\ SubSeq(type, Len(type) - 1, Len(type)) = "[]"

ElemType(type) == SubSeq(type, 1, Len(type) - 2)

S_categoryOptions == "'hotels' | 'attractions' | 'restaurants' | 'geos'"

\* the `expected` of the invalid_type issue a type raises
ExpectedChars(type) ==
  IF type \in PrimTypes THEN TypeChars(type)
  ELSE IF IsArrayOf(type) THEN "array"
  ELSE IF type = "number.min(0)" THEN "number"
  ELSE IF type = "TripAdvisorCategory" THEN S_categoryOptions
  ELSE "object"

\* the path of an issue, as the text between the brackets of its JSON
PathKey(path, key) == (IF path = "" THEN "" ELSE path \o ",") \o "\"" \o key \o "\""

PathIndex(path, i) == (IF path = "" THEN "" ELSE path \o ",") \o NatToChars(i)

\* JSON.stringify of an invalid_type issue at a path
IssueAt(expected, x, path) ==
  "{\"code\":\"invalid_type\",\"expected\":\"" \o expected
  \o "\",\"received\":\"" \o ParsedType(x)
  \o "\",\"path\":[" \o path \o "],\"message\":\""
  \o (IF x.t = "undefined" THEN "Required"
      ELSE "Expected " \o expected \o ", received " \o ParsedType(x))
  \o "\"}"

\* z.enum: the issue of a string outside the options
EnumIssue(x, path) ==
  "{\"received\":\"" \o x.s \o "\",\"code\":\"invalid_enum_value\",\"options\":"
  \o "[\"hotels\",\"attractions\",\"restaurants\",\"geos\"],\"path\":[" \o path
  \o "],\"message\":\"Invalid enum value. Expected " \o S_categoryOptions
  \o ", received '" \o x.s \o "'\"}"

\* z.number().min(0): the issue of a negative number
TooSmallIssue(path) ==
  "{\"code\":\"too_small\",\"minimum\":0,\"type\":\"number\",\"inclusive\":true,"
  \o "\"exact\":false,\"message\":\"Number must be greater than or equal to 0\","
  \o "\"path\":[" \o path \o "]}"

\* whether s is one of the strings of seq
InSeq(seq, s) == \E i \in 1..Len(seq) : seq[i] = s

RECURSIVE CheckType(_, _, _)
RECURSIVE ParseFieldsAt(_, _, _, _)
RECURSIVE CheckElems(_, _, _, _)
RECURSIVE CheckAlts(_, _, _, _)

\* the result [issues, out] of one field f of an object at `path`, x its input value
FieldResult(f, x, path) ==
  IF f.type \notin PrimTypes /\ x.t \notin {"undefined", "null"}
    THEN CheckType(f.type, x, PathKey(path, f.k))
    ELSE [issues |-> IF FieldOk(f, x) THEN ""
                     ELSE IssueAt(ExpectedChars(f.type), x, PathKey(path, f.k)),
          out |-> FieldOut(f, x)]

\* the result r of the entry `key` put before the result of the entries after it;
\* keep tells whether an undefined output still makes a key
AddEntry(key, keep, r, rest) ==
  IF r.issues # ""
    THEN [issues |-> r.issues \o (IF rest.issues = "" THEN "" ELSE ",") \o rest.issues,
          out |-> rest.out]
  ELSE IF r.out.t # "undefined" \/ keep
    THEN [issues |-> rest.issues, out |-> <<KV(key, r.out)>> \o rest.out]
  ELSE rest

\* the fields from index i on of an object at `path`: [issues, out]
ParseFieldsAt(shape, entries, i, path) ==
  IF i > Len(shape) THEN [issues |-> "", out |-> <<>>]
  ELSE AddEntry(shape[i].k, HasKey(entries, shape[i].k),
                FieldResult(shape[i], Lookup(entries, shape[i].k), path),
                ParseFieldsAt(shape, entries, i + 1, path))

\* the elements from index i on of an array at `path`, each under `type`
CheckElems(type, entries, i, path) ==
  IF i > Len(entries) THEN [issues |-> "", out |-> <<>>]
  ELSE AddEntry(entries[i].k, TRUE,
                CheckType(type, entries[i].v, PathIndex(path, i - 1)),
                CheckElems(type, entries, i + 1, path))

\* the result r of one alternative of a union before the result of those after it
FirstOf(r, rest) ==
  IF r.issues = "" THEN [ok |-> TRUE, out |-> r.out, errs |-> ""]
  ELSE IF rest.ok THEN rest
  ELSE [ok |-> FALSE, out |-> Undef,
        errs |-> "{\"issues\":[" \o r.issues \o "],\"name\":\"ZodError\"}"
                 \o (IF rest.errs = "" THEN "" ELSE ",") \o rest.errs]

\* z.union from alternative i on: the first alternative that accepts x gives the
\* result; errs collects the ZodError of every alternative that did not
CheckAlts(alts, x, i, path) ==
  IF i > Len(alts) THEN [ok |-> FALSE, out |-> Undef, errs |-> ""]
  ELSE FirstOf(CheckType(alts[i], x, path), CheckAlts(alts, x, i + 1, path))

\* the result of an array from the result of its elements
ArrayResult(r) == [issues |-> r.issues, out |-> Arr(r.out)]

\* the result of an object from the result of its fields
ObjectResult(r) == [issues |-> r.issues, out |-> Obj(r.out)]

\* the result of a union from the result of its alternatives
UnionResult(r, path) ==
  IF r.ok THEN [issues |-> "", out |-> r.out]
  ELSE [issues |-> "{\"code\":\"invalid_union\",\"unionErrors\":[" \o r.errs
                   \o "],\"path\":[" \o path \o "],\"message\":\"Invalid input\"}",
        out |-> Undef]

\* a defined value x under a type: [issues, out], issues = "" when x is accepted
CheckType(type, x, path) ==
  IF type \in PrimTypes
    THEN IF type = "any" \/ ParsedType(x) = TypeChars(type)
           THEN [issues |-> "", out |-> x]
           ELSE [issues |-> IssueAt(TypeChars(type), x, path), out |-> Undef]
  ELSE IF type = "number.min(0)"
    THEN IF x.t # "number" THEN [issues |-> IssueAt("number", x, path), out |-> Undef]
         ELSE IF x.n < 0 THEN [issues |-> TooSmallIssue(path), out |-> Undef]
         ELSE [issues |-> "", out |-> x]
  ELSE IF type = "TripAdvisorCategory"
    THEN IF x.t # "string"
           THEN [issues |-> IssueAt(S_categoryOptions, x, path), out |-> Undef]
         ELSE IF ~InSeq(TripAdvisorCategorySchema, x.s)
           THEN [issues |-> EnumIssue(x, path), out |-> Undef]
         ELSE [issues |-> "", out |-> x]
  ELSE IF IsArrayOf(type)
    THEN IF x.t # "array" THEN [issues |-> IssueAt("array", x, path), out |-> Undef]
         ELSE ArrayResult(CheckElems(ElemType(type), x.o, 1, path))
  ELSE IF IsUnion(type)
    THEN UnionResult(CheckAlts(UnionSchema(type), x, 1, path), path)
  ELSE IF x.t # "object" THEN [issues |-> IssueAt("object", x, path), out |-> Undef]
  ELSE ObjectResult(ParseFieldsAt(ObjectSchema(type), x.o, 1, path))

\* the fields from index i on of a top-level object: [issues, out]
ParseFields(shape, entries, i) == ParseFieldsAt(shape, entries, i, "")

S_ZodError == "ZodError: "

\* what parse() gives for the result r of the check: the value, or the text of the
\* ZodError
ParseResult(r) ==
  IF r.issues # ""
    THEN [ok |-> FALSE, value |-> Undef, text |-> S_ZodError \o "[" \o r.issues \o "]"]
    ELSE [ok |-> TRUE, value |-> r.out, text |-> ""]

\* schema.parse(value): ok with the parsed value, or text = `${error}` of the
\* ZodError it throws.  shape is the field list of an inline z.object, or Named(type)
Parse(shape, value) ==
  IF Len(shape) = 1 /\ shape[1].k = ""
    THEN ParseResult(CheckType(shape[1].type, value, ""))
  ELSE IF value.t # "object"
    THEN [ok |-> FALSE, value |-> Undef,
          text |-> S_ZodError \o "[" \o IssueChars("object", value, "") \o "]"]
  ELSE ParseResult(ObjectResult(ParseFields(shape, value.o, 1)))

----------------------------------------------------------------------------
(* http-client.ts: HttpClient *)

\* the application/x-www-form-urlencoded byte serializer of URLSearchParams, on the
\* characters the model uses: letters, digits and * - . _ are kept, the space
\* becomes +, every other character is percent-encoded
\* a faulty variant: every character is written as it is
EncChar_Raw(c) == c

EncChar(c) ==
  CASE c = " " -> "+"
    [] c = ":" -> "%3A"
    [] c = "/" -> "%2F"
    [] c = "&" -> "%26"
    [] c = "=" -> "%3D"
    [] c = "+" -> "%2B"
    [] c = "%" -> "%25"
    [] c = "?" -> "%3F"
    [] c = "," -> "%2C"
    [] c = "[" -> "%5B"
    [] c = "]" -> "%5D"
    [] OTHER -> c

RECURSIVE EncChars(_)
EncChars(chars) ==
  IF chars = "" THEN ""
  ELSE EncChar(SubSeq(chars, 1, 1)) \o EncChars(SubSeq(chars, 2, Len(chars)))

RECURSIVE Serialize(_)
\* URLSearchParams.toString(): name=value pairs joined by &
Serialize(pairs) ==
  IF pairs = <<>> THEN ""
  ELSE EncChars(pairs[1].k) \o "=" \o EncChars(pairs[1].v)
       \o (IF Len(pairs) > 1 THEN "&" ELSE "") \o Serialize(Tail(pairs))

RECURSIVE AppendParams_KeepNull(_)
\* a faulty variant: null is appended as the text "null"
AppendParams_KeepNull(entries) ==
  IF entries = <<>> THEN <<>>
  ELSE (IF entries[1].v.t # "undefined"
          THEN <<[k |-> entries[1].k, v |-> ToChars(entries[1].v)]>> ELSE <<>>)
       \o AppendParams_KeepNull(Tail(entries))

RECURSIVE AppendParams(_)
\* the forEach of buildUrl: one params.append per entry that is neither
\* undefined nor null, in the order of Object.entries
AppendParams(entries) ==
  IF entries = <<>> THEN <<>>
  ELSE (IF entries[1].v.t \notin {"undefined", "null"}
          THEN <<[k |-> entries[1].k, v |-> ToChars(entries[1].v)]>> ELSE <<>>)
       \o AppendParams(Tail(entries))

\* a faulty variant: the credential is appended after the parameters
QueryPairs_KeyLast(cfg, payload) ==
  AppendParams(payload.o) \o <<[k |-> S_key, v |-> ToChars(Field(cfg, "apiKey"))]>>

\* a faulty variant: the default language and currency of the configuration are
\* appended to the query
QueryPairs_ConfigLocale(cfg, payload) ==
  <<[k |-> S_key, v |-> ToChars(Field(cfg, "apiKey"))]>> \o AppendParams(payload.o)
  \o <<[k |-> "language", v |-> ToChars(Field(cfg, "language"))],
       [k |-> "currency", v |-> ToChars(Field(cfg, "currency"))]>>

\* the list of the URLSearchParams that buildUrl fills
QueryPairs(cfg, payload) ==
  <<[k |-> S_key, v |-> ToChars(Field(cfg, "apiKey"))]>> \o AppendParams(payload.o)

\* HttpClient.buildUrl(endpoint, payload), reading the configuration cfg
buildUrl(cfg, endpoint, payload) ==
  ToChars(Field(cfg, "baseUrl")) \o endpoint \o "?" \o Serialize(QueryPairs(cfg, payload))

S_Accept == "Accept"
S_ContentType == "Content-Type"
S_applicationJson == "application/json"

RECURSIVE SpreadEntries(_, _)
\* {...a, ...b} on entry lists: a key of b replaces the value in place, a new key
\* is appended
SpreadEntries(a, b) ==
  IF b = <<>> THEN a
  ELSE SpreadEntries(
         IF HasKey(a, b[1].k)
           THEN [i \in 1..Len(a) |-> IF a[i].k = b[1].k THEN b[1] ELSE a[i]]
           ELSE Append(a, b[1]),
         Tail(b))

\* a faulty variant: the defaults are spread over the caller's headers
buildHeaders_DefaultsWin(customHeaders) ==
  SpreadEntries(customHeaders, <<KV(S_Accept, Str(S_applicationJson)),
                                 KV(S_ContentType, Str(S_applicationJson))>>)

\* HttpClient.buildHeaders(customHeaders)
buildHeaders(customHeaders) ==
  SpreadEntries(<<KV(S_Accept, Str(S_applicationJson)),
                  KV(S_ContentType, Str(S_applicationJson))>>, customHeaders)

\* /^5\d{2}/.test(message)
Starts5xx(message) ==
  /\ Len(message) >= 3
  /\ SubSeq(message, 1, 1) = "5"
  /\ SubSeq(message, 2, 2) \in DigitSet
  /\ SubSeq(message, 3, 3) \in DigitSet

\* HttpClient.isRetryableError(error)
isRetryableError(error) ==
  \/ error.name = "AbortError"
  \/ Includes(error.message, S_fetch)
  \/ Includes(error.message, S_network)
  \/ Includes(error.message, S_timeout)
  \/ Starts5xx(error.message)

RECURSIVE Pow2(_)
\* Math.pow(2, attempt)
Pow2(k) == IF k = 0 THEN 1 ELSE 2 * Pow2(k - 1)

\* retryDelay * Math.pow(2, attempt)
BackoffMs(retryDelay, attempt) ==
  IF retryDelay.t = "number" THEN Num(retryDelay.n * Pow2(attempt)) ELSE NaN

\* attempt <= retries
LoopCond(attempt, retries) ==
  CASE retries.t = "number" -> attempt <= retries.n
    [] retries.t = "null" -> attempt <= 0
    [] OTHER -> FALSE

\* attempt === retries
IsLastAttempt(attempt, retries) == retries.t = "number" /\ attempt = retries.n

----------------------------------------------------------------------------
(* The state *)

VARIABLES
  env,      \* process.env.TRIPADVISOR_API_KEY: a string value or Undef
  config,   \* ConfigManager.config, the stored configuration (no keys: none built)
  cfgOp,    \* the last constructor / updateConfig call: argument, outcome, prior value
  calls,    \* the state of each HttpClient.request call
  held,     \* the object the caller holds from its last getConfig()
  probe     \* the last direct call of a static method of TripAdvisorError

vars == <<env, config, cfgOp, calls, held, probe>>

\* no ConfigManager exists: the constructor threw
NoConfig == [key \in {} |-> Undef]

\* the caller holds no object yet.  alias tells whether the held object is the very
\* object this.config refers to, value is its content
NoHeld == [has |-> FALSE, alias |-> FALSE, value |-> NoConfig]

\* One call of request().  pc is the await the call is suspended at: "fetch"
\* (await fetch), "json" (await response.json()), "delay" (await this.delay), or
\* "idle" before the call and "done" after it.  url .. attempt, lastError are the
\* locals of request / sendWithRetry; timer is the pending setTimeout of
\* sendRequest.  The other fields record the history of the call: fetches counts
\* the calls of fetch, sent their arguments, errs the error caught in each failed
\* attempt, waits the backoff delays, validated the bodies responseSchema.parse was
\* called on, encoded the calls of buildUrl, body the parsed body of the current
\* attempt, args the arguments of request(), startCfg the stored configuration
\* when request() was called, seq the number of calls started before this one,
\* overdue whether the timeout duration has passed since the current attempt
\* began, cancelAt the number of fetch calls made when the caller gave the call
\* up (-1: it has not), client the method of TripAdvisorClient that made the call
\* ("none": request() was called directly), its locationId argument and how the
\* method itself settled.
IdleCall ==
  [pc |-> "idle", url |-> "", method |-> Undef, headers |-> <<>>,
   timeout |-> Undef, retries |-> Undef, retryDelay |-> Undef,
   responseSchema |-> <<>>, attempt |-> 0, lastError |-> NoError,
   timer |-> FALSE, delayMs |-> Undef,
   outcome |-> "none", result |-> Undef, thrown |-> NoError,
   fetches |-> 0, sent |-> <<>>, errs |-> <<>>, waits |-> <<>>,
   validated |-> <<>>, encoded |-> 0, body |-> Undef, startCfg |-> NoConfig,
   seq |-> 0, overdue |-> FALSE, cancelAt |-> 0 - 1,
   client |-> [api |-> "none", locationId |-> "", outcome |-> "none",
               result |-> Undef, thrown |-> NoError],
   args |-> [endpoint |-> "", payload |-> Undef, payloadSchema |-> <<>>,
             options |-> NoConfig]]

----------------------------------------------------------------------------
(* sendWithRetry and sendRequest as transitions of one call's record *)

\* options.key with its destructuring default
Opt(options, key, dflt) ==
  IF Field(options, key).t = "undefined" THEN dflt ELSE options[key]

\* a faulty variant: each attempt reads the timeout from the stored configuration
StartAttempt_LiveConfig(r) ==
  [r EXCEPT !.pc = "fetch", !.timer = TRUE, !.fetches = @ + 1, !.body = Undef,
            !.overdue = FALSE,
            !.sent = Append(@, [url |-> r.url, method |-> r.method,
                                headers |-> r.headers,
                                timeout |-> Opt(r.args.options, "timeout",
                                                Field(config, "timeout")),
                                live |-> config])]

\* a faulty variant: every attempt encodes the URL again, from the stored
\* configuration of that moment
StartAttempt_RebuildUrl(r) ==
  [r EXCEPT !.pc = "fetch", !.timer = TRUE, !.fetches = @ + 1, !.body = Undef,
            !.overdue = FALSE,
            !.url = buildUrl(config, r.args.endpoint,
                             Parse(r.args.payloadSchema, r.args.payload).value),
            !.encoded = @ + 1,
            !.sent = Append(@, [url |-> buildUrl(config, r.args.endpoint,
                                                 Parse(r.args.payloadSchema,
                                                       r.args.payload).value),
                                method |-> r.method,
                                headers |-> r.headers, timeout |-> r.timeout,
                                live |-> config])]

\* sendRequest up to `await fetch(...)`: the timer is armed, fetch is called with
\* (url, method, headers) under the timeout; live is the stored configuration at
\* that moment
StartAttempt(r) ==
  [r EXCEPT !.pc = "fetch", !.timer = TRUE, !.fetches = @ + 1, !.body = Undef,
            !.overdue = FALSE,
            !.sent = Append(@, [url |-> r.url, method |-> r.method,
                                headers |-> r.headers, timeout |-> r.timeout,
                                live |-> config])]

\* a faulty variant: the method hands back the whole validated response
Settle_WholeResponse(r) ==
  IF r.client.api = "none" THEN r
  ELSE IF r.outcome = "fail"
    THEN [r EXCEPT !.client.outcome = "fail", !.client.thrown = r.thrown]
  ELSE [r EXCEPT !.client.outcome = "ok", !.client.result = r.result]

\* client.ts: what the method of TripAdvisorClient does once its
\* `await this.httpClient.request(...)` settles.  A rejection passes through;
\* locationDetails returns the result; the other three return result.data or throw
\* when `'data' in result` is false
Settle(r) ==
  IF r.client.api = "none" THEN r
  ELSE IF r.outcome = "fail"
    THEN [r EXCEPT !.client.outcome = "fail", !.client.thrown = r.thrown]
  ELSE IF r.client.api = "details"
    THEN [r EXCEPT !.client.outcome = "ok", !.client.result = r.result]
  ELSE IF ~HasKey(r.result.o, K_data)
    THEN [r EXCEPT !.client.outcome = "fail",
                   !.client.thrown =
                     Err("TripAdvisorError", "TripAdvisorError",
                         "Invalid " \o r.client.api \o " response format",
                         Undef, Undef, FALSE, "response", 0)]
  ELSE [r EXCEPT !.client.outcome = "ok", !.client.result = Get(r.result, K_data)]

\* the call rejects with e
Throw(r, e) == Settle([r EXCEPT !.pc = "done", !.outcome = "fail", !.thrown = e])

\* a faulty variant: the value is recorded but the loop is not left
Return_NotTerminal(r, value) ==
  [r EXCEPT !.pc = "delay", !.outcome = "ok", !.result = value]

\* the call resolves with value
Return(r, value) == Settle([r EXCEPT !.pc = "done", !.outcome = "ok", !.result = value])

\* the head of the for loop: the next attempt, or `throw lastError!` after it
LoopTop(r) ==
  IF LoopCond(r.attempt, r.retries) THEN StartAttempt(r) ELSE Throw(r, r.lastError)

\* the catch block of sendWithRetry, entered with error e
Catch(r, e) ==
  LET r1 == [r EXCEPT !.lastError = e, !.errs = Append(@, e)]
  IN IF IsLastAttempt(r1.attempt, r1.retries) THEN Throw(r1, e)
     ELSE IF ~isRetryableError(e) THEN Throw(r1, e)
     ELSE [r1 EXCEPT !.pc = "delay",
                     !.delayMs = BackoffMs(r1.retryDelay, r1.attempt),
                     !.waits = Append(@, BackoffMs(r1.retryDelay, r1.attempt))]

\* the inner try block of sendWithRetry: p is what responseSchema.parse(data) gave
OnParsed(r, p) ==
  IF p.ok THEN Return(r, p.value)
  ELSE Catch(r, ValidationError(S_InvalidResponseFormat \o p.text, "response"))

\* the try block of sendWithRetry after `await response.json()` gave data
OnBody(r, data) ==
  IF isApiError(data) THEN Catch([r EXCEPT !.body = data], fromApiResponse(data))
  ELSE OnParsed([r EXCEPT !.body = data, !.validated = Append(@, data)],
                Parse(r.responseSchema, data))

S_GET == "GET"

\* a faulty variant: a payload that fails its schema is sent as it is
StartRequest_NoValidation(r, cfg, endpoint, payload, payloadSchema, responseSchema, options) ==
  LoopTop([r EXCEPT !.startCfg = cfg,
                    !.args = [endpoint |-> endpoint, payload |-> payload,
                              payloadSchema |-> payloadSchema, options |-> options],
                    !.method = Opt(options, "method", Str(S_GET)),
                    !.timeout = Opt(options, "timeout", Field(cfg, "timeout")),
                    !.retries = Opt(options, "retries", Field(cfg, "retries")),
                    !.retryDelay = Opt(options, "retryDelay", Field(cfg, "retryDelay")),
                    !.responseSchema = responseSchema,
                    !.url = buildUrl(cfg, endpoint, payload),
                    !.encoded = @ + 1,
                    !.headers = buildHeaders(Opt(options, "headers", Obj(<<>>)).o)])

\* request() after payloadSchema.parse(payload) gave p
OnValidated(r, p, cfg, endpoint, options) ==
  IF ~p.ok
    THEN Throw(r, ValidationError(S_InvalidRequestPayload \o p.text, "params"))
    ELSE LoopTop([r EXCEPT !.url = buildUrl(cfg, endpoint, p.value),
                           !.encoded = @ + 1,
                           !.headers = buildHeaders(Opt(options, "headers", Obj(<<>>)).o)])

\* request(): everything it does before its first await
StartRequest(r, cfg, endpoint, payload, payloadSchema, responseSchema, options) ==
  OnValidated([r EXCEPT !.startCfg = cfg,
                        !.args = [endpoint |-> endpoint, payload |-> payload,
                                  payloadSchema |-> payloadSchema, options |-> options],
                        !.method = Opt(options, "method", Str(S_GET)),
                        !.timeout = Opt(options, "timeout", Field(cfg, "timeout")),
                        !.retries = Opt(options, "retries", Field(cfg, "retries")),
                        !.retryDelay = Opt(options, "retryDelay", Field(cfg, "retryDelay")),
                        !.responseSchema = responseSchema],
              Parse(payloadSchema, payload), cfg, endpoint, options)

----------------------------------------------------------------------------
(* The operations *)

\* new ConfigManager(partial)
Construct(partial, envKey) ==
  LET m == validateAndMergeConfig(partial, envKey)
  IN [config |-> IF m.threw THEN NoConfig ELSE m.value,
      cfgOp |-> [op |-> "new", arg |-> partial, threw |-> m.threw, before |-> NoConfig]]

\* ConfigManager.updateConfig(updates)
UpdateConfig(updates) ==
  /\ config # NoConfig
  /\ LET m == validateAndMergeConfig(Spread(config, updates), env)
     IN /\ config' = IF m.threw THEN config ELSE m.value
        /\ cfgOp' = [op |-> "update", arg |-> updates, threw |-> m.threw, before |-> config]
        /\ held' = [held EXCEPT !.alias = IF m.threw THEN @ ELSE FALSE]
  /\ UNCHANGED <<env, calls, probe>>

\* a faulty variant: the stored object itself is handed out
getConfig_Live ==
  /\ config # NoConfig
  /\ held' = [has |-> TRUE, alias |-> TRUE, value |-> config]
  /\ UNCHANGED <<env, config, cfgOp, calls, probe>>

\* ConfigManager.getConfig(): `return { ...this.config }`, a new object with the
\* fields of the stored one
getConfig ==
  /\ config # NoConfig
  /\ held' = [has |-> TRUE, alias |-> FALSE, value |-> config]
  /\ UNCHANGED <<env, config, cfgOp, calls, probe>>

\* the caller assigns a field of the object it holds: `copy.apiKey = 'modified'`
MutateCopy(key, value) ==
  /\ held.has
  /\ held.value[key] # value
  /\ held' = [held EXCEPT !.value[key] = value]
  /\ config' = IF held.alias THEN [config EXCEPT ![key] = value] ELSE config
  /\ UNCHANGED <<env, cfgOp, calls, probe>>

\* a faulty variant: the overrides of the call are written to the stored
\* configuration
Request_PersistOverrides(c, endpoint, payload, payloadSchema, responseSchema, options) ==
  /\ config # NoConfig
  /\ calls[c].pc = "idle"
  /\ calls' = [calls EXCEPT ![c] =
       [StartRequest(@, config, endpoint, payload, payloadSchema, responseSchema, options)
          EXCEPT !.seq = Cardinality({d \in DOMAIN calls : calls[d].pc # "idle"})]]
  /\ config' = Spread(config, [key \in (DOMAIN options) \ {"method", "headers"} |->
                                 options[key]])
  /\ UNCHANGED <<env, cfgOp, held, probe>>

\* no static method was called yet
NoProbe == [fn |-> "none", arg |-> Undef, err |-> NoError, out |-> FALSE]

\* a caller evaluates TripAdvisorError.fromApiResponse(response)
CallFromApiResponse(response) ==
  /\ probe' = [fn |-> "fromApiResponse", arg |-> response,
               err |-> fromApiResponse(response), out |-> FALSE]
  /\ UNCHANGED <<env, config, cfgOp, calls, held>>

\* a caller evaluates TripAdvisorError.isApiError(response)
CallIsApiError(response) ==
  /\ probe' = [fn |-> "isApiError", arg |-> response,
               err |-> NoError, out |-> isApiError(response)]
  /\ UNCHANGED <<env, config, cfgOp, calls, held>>

\* HttpClient.request(endpoint, payload, payloadSchema, responseSchema, options)
Request(c, endpoint, payload, payloadSchema, responseSchema, options) ==
  /\ config # NoConfig
  /\ calls[c].pc = "idle"
  /\ calls' = [calls EXCEPT ![c] =
       [StartRequest(@, config, endpoint, payload, payloadSchema, responseSchema, options)
          EXCEPT !.seq = Cardinality({d \in DOMAIN calls : calls[d].pc # "idle"})]]
  /\ UNCHANGED <<env, config, cfgOp, held, probe>>

\* the part of a client method up to its await: request() is called with the
\* endpoint and the schemas of the method and with no options
ClientCall(c, api, locationId, endpoint, payload, payloadSchema, responseSchema) ==
  /\ config # NoConfig
  /\ calls[c].pc = "idle"
  /\ calls' = [calls EXCEPT ![c] =
       [StartRequest([@ EXCEPT !.client.api = api, !.client.locationId = locationId],
                     config, endpoint, payload, payloadSchema, responseSchema, NoConfig)
          EXCEPT !.seq = Cardinality({d \in DOMAIN calls : calls[d].pc # "idle"})]]
  /\ UNCHANGED <<env, config, cfgOp, held, probe>>

\* TripAdvisorClient.locationSearch(payload)
LocationSearch(c, payload) ==
  ClientCall(c, "search", "", "/location/search", payload,
             LocationSearchPayloadSchema, Named("LocationSearchResponse"))

\* TripAdvisorClient.locationDetails(locationId, payload)
LocationDetails(c, locationId, payload) ==
  ClientCall(c, "details", locationId, "/location/" \o locationId \o "/details", payload,
             LocationDetailsPayloadSchema, Named("LocationDetailsResponse"))

\* TripAdvisorClient.locationReviews(locationId, payload)
LocationReviews(c, locationId, payload) ==
  ClientCall(c, "reviews", locationId, "/location/" \o locationId \o "/reviews", payload,
             LocationReviewsPayloadSchema, Named("LocationReviewsResponse"))

\* TripAdvisorClient.locationPhotos(locationId, limit): the payload is { limit },
\* its schema z.object({ limit: z.number() })
LocationPhotos(c, locationId, limit) ==
  ClientCall(c, "photos", locationId, "/location/" \o locationId \o "/photos",
             Obj(<<KV("limit", limit)>>), <<Required("limit", "number")>>,
             Named("LocationPhotosResponse"))

\* `HTTP ${response.status}: ${response.statusText}`
HttpError(status, statusText) ==
  Err("Error", "Error", S_HTTP \o NumToChars(status) \o S_colon \o statusText,
      Undef, Undef, FALSE, "http", status)

\* fetch resolves with a response: sendRequest clears the timer, throws on !response.ok
FetchResolve(c, status, statusText) ==
  /\ calls[c].pc = "fetch"
  /\ calls' = [calls EXCEPT ![c] =
       LET r == [@ EXCEPT !.timer = FALSE]
       IN IF status >= 200 /\ status <= 299
            THEN [r EXCEPT !.pc = "json"]
            ELSE Catch(r, HttpError(status, statusText))]
  /\ UNCHANGED <<env, config, cfgOp, held, probe>>

\* a faulty variant: the catch clause of sendRequest rethrows without clearTimeout
FetchReject_KeepTimer(c, message) ==
  /\ calls[c].pc = "fetch"
  /\ calls' = [calls EXCEPT ![c] =
       Catch(@, Err("TypeError", "TypeError", message, Undef, Undef, FALSE,
                    "connection", 0))]
  /\ UNCHANGED <<env, config, cfgOp, held, probe>>

\* fetch rejects with a TypeError (connection failure): the timer is cleared
FetchReject(c, message) ==
  /\ calls[c].pc = "fetch"
  /\ calls' = [calls EXCEPT ![c] =
       Catch([@ EXCEPT !.timer = FALSE],
             Err("TypeError", "TypeError", message, Undef, Undef, FALSE, "connection", 0))]
  /\ UNCHANGED <<env, config, cfgOp, held, probe>>

S_aborted == "This operation was aborted"

\* the timer fires: controller.abort() makes the pending fetch reject with AbortError
TimeoutFire(c) ==
  /\ calls[c].pc = "fetch"
  /\ calls[c].timer
  /\ calls' = [calls EXCEPT ![c] =
       Catch([@ EXCEPT !.timer = FALSE, !.overdue = TRUE],
             Err("DOMException", "AbortError", S_aborted, Undef, Undef, FALSE, "timeout", 0))]
  /\ UNCHANGED <<env, config, cfgOp, held, probe>>

\* the timeout duration passes while the body is read: sendRequest has cleared the
\* timer when fetch settled, so no callback runs and nothing is aborted
TimeoutPasses(c) ==
  /\ calls[c].pc = "json"
  /\ ~calls[c].timer
  /\ ~calls[c].overdue
  /\ calls' = [calls EXCEPT ![c] = [@ EXCEPT !.overdue = TRUE]]
  /\ UNCHANGED <<env, config, cfgOp, held, probe>>

\* the caller gives up a call that is suspended in fetch or in the backoff wait.
\* RequestOptions has no signal and request() returns only the promise; the
\* AbortController is local to sendRequest and the timer of delay() is held by
\* nobody: no code of the client runs
Cancel(c) ==
  /\ calls[c].pc \in {"fetch", "delay"}
  /\ calls[c].cancelAt < 0
  /\ calls' = [calls EXCEPT ![c] = [@ EXCEPT !.cancelAt = calls[c].fetches]]
  /\ UNCHANGED <<env, config, cfgOp, held, probe>>

\* response.json() resolves with the parsed body
JsonResolve(c, data) ==
  /\ calls[c].pc = "json"
  /\ calls' = [calls EXCEPT ![c] = OnBody(@, data)]
  /\ UNCHANGED <<env, config, cfgOp, held, probe>>

\* response.json() rejects: the body is not JSON
JsonReject(c, message) ==
  /\ calls[c].pc = "json"
  /\ calls' = [calls EXCEPT ![c] =
       Catch(@, Err("SyntaxError", "SyntaxError", message, Undef, Undef, FALSE, "parse", 0))]
  /\ UNCHANGED <<env, config, cfgOp, held, probe>>

\* a faulty variant: the loop goes on without counting the attempt
DelayElapsed_NoIncrement(c) ==
  /\ calls[c].pc = "delay"
  /\ calls' = [calls EXCEPT ![c] = LoopTop(@)]
  /\ UNCHANGED <<env, config, cfgOp, held, probe>>

\* the backoff timer of delay() fires: attempt++ and the loop goes on
DelayElapsed(c) ==
  /\ calls[c].pc = "delay"
  /\ calls' = [calls EXCEPT ![c] = LoopTop([@ EXCEPT !.attempt = @ + 1])]
  /\ UNCHANGED <<env, config, cfgOp, held, probe>>

----------------------------------------------------------------------------
(* The inputs the model draws from *)

\* the largest per-call `retries` override the model draws
MaxRetries == 2

S_k1 == "k1"
S_k2 == "k2"
S_envKey == "env-key"
S_exampleBase == "https://api.example/v1"
S_fr == "fr"
S_GBP == "GBP"
S_locationSearch == "/location/search"
K_searchQuery == "searchQuery"
K_language == "language"
K_offset == "offset"
K_limit == "limit"
K_invalidField == "invalidField"
S_Paris == "Paris"
S_test == "test"
S_POST == "POST"
K_CustomHeader == "Custom-Header"
S_value == "value"

\* process.env.TRIPADVISOR_API_KEY: unset, empty, or set
Envs == {Undef, Str(""), Str(S_envKey)}

\* constructor arguments
InitPartials ==
  {[apiKey |-> Str(S_k1)],
   [apiKey |-> Str(S_k1), baseUrl |-> Str(S_exampleBase)],
   [apiKey |-> Str("")],
   [language |-> Str(S_fr)]}

\* updateConfig arguments
Updates ==
  {[apiKey |-> Str("")],
   [apiKey |-> Str(S_k2)],
   [apiKey |-> Str(""), timeout |-> Num(45000)],
   [language |-> Str(S_fr), currency |-> Str(S_GBP), timeout |-> Num(45000)],
   [retries |-> Num(1), retryDelay |-> Num(500)],
   [baseUrl |-> Str(S_exampleBase)]}

\* mockPayloadSchema of the HttpClient tests
PayloadShape ==
  <<FieldSpec(K_searchQuery, "string", FALSE, FALSE, Undef),
    FieldSpec(K_language, "string", TRUE, FALSE, Undef)>>

\* z.object({ data: z.array(z.any()) }) of the HttpClient tests
ResponseShape == <<FieldSpec(K_data, "array", FALSE, FALSE, Undef)>>

K_network == "network"

\* a response schema with a field named `network`:
\* z.object({ data: z.array(z.any()), network: z.string() })
NetworkResponseShape ==
  <<FieldSpec(K_data, "array", FALSE, FALSE, Undef),
    FieldSpec(K_network, "string", FALSE, FALSE, Undef)>>

\* LocationReviewsPayloadSchema
ReviewsPayloadShape ==
  <<FieldSpec(K_language, "string", TRUE, FALSE, Undef),
    FieldSpec(K_limit, "number", TRUE, FALSE, Undef),
    FieldSpec(K_offset, "number", TRUE, FALSE, Undef)>>

\* the (payload schema, payload, response schema) triples request() is called with
Requests ==
  {[shape |-> PayloadShape, response |-> ResponseShape,
    payload |-> Obj(<<KV(K_searchQuery, Str(S_Paris)), KV(K_language, Str(S_en))>>)],
   [shape |-> PayloadShape, response |-> NetworkResponseShape,
    payload |-> Obj(<<KV(K_searchQuery, Str(S_Paris))>>)],
   [shape |-> PayloadShape, response |-> ResponseShape,
    payload |-> Obj(<<KV(K_invalidField, Str(S_test))>>)],
   [shape |-> PayloadShape, response |-> ResponseShape,
    payload |-> Obj(<<KV(K_searchQuery, Num(5)), KV(K_language, Str(S_en))>>)],
   [shape |-> ReviewsPayloadShape, response |-> ResponseShape,
    payload |-> Obj(<<KV(K_limit, Num(10))>>)],
   [shape |-> ReviewsPayloadShape, response |-> ResponseShape,
    payload |-> Obj(<<KV(K_language, Str(S_en)), KV(K_limit, Str(S_test))>>)]}

K_currency == "currency"
K_validParam == "validParam"

\* flexibleSchema of the HttpClient tests
FlexibleShape ==
  <<FieldSpec(K_searchQuery, "string", FALSE, FALSE, Undef),
    FieldSpec(K_language, "string", TRUE, FALSE, Undef),
    FieldSpec(K_currency, "string", TRUE, TRUE, Undef),
    FieldSpec(K_validParam, "string", TRUE, FALSE, Undef)>>

\* the (payload schema, payload) pairs the encoder is exercised with: the two URL
\* tests, an empty and a reserved-character value, the number 0, and fields given
\* in another order than the schema declares them
EncodeRequests ==
  {[shape |-> PayloadShape,
    payload |-> Obj(<<KV(K_searchQuery, Str(S_Paris)), KV(K_language, Str(S_en))>>)],
   [shape |-> FlexibleShape,
    payload |-> Obj(<<KV(K_searchQuery, Str("test location")), KV(K_language, Str(S_en)),
                      KV(K_currency, Str(S_USD))>>)],
   [shape |-> FlexibleShape,
    payload |-> Obj(<<KV(K_searchQuery, Str(S_test)), KV(K_language, Undef),
                      KV(K_currency, Null), KV(K_validParam, Str(S_value))>>)],
   [shape |-> FlexibleShape,
    payload |-> Obj(<<KV(K_searchQuery, Str("")), KV(K_currency, Null),
                      KV(K_validParam, Str("a&b=c"))>>)],
   [shape |-> ReviewsPayloadShape,
    payload |-> Obj(<<KV(K_offset, Num(10)), KV(K_limit, Num(0)),
                      KV(K_language, Str(S_en))>>)],
   [shape |-> ReviewsPayloadShape,
    payload |-> Obj(<<KV(K_offset, Num(5)), KV(K_language, Undef)>>)]}

\* the custom options of the HttpClient tests
CustomOptions ==
  [method |-> Str(S_POST), headers |-> Obj(<<KV(K_CustomHeader, Str(S_value))>>),
   timeout |-> Num(5000), retries |-> Num(2), retryDelay |-> Num(500)]

\* options whose headers give Content-Type another value and add a header
HeaderOptions ==
  [headers |-> Obj(<<KV(S_ContentType, Str("text/plain")),
                     KV(K_CustomHeader, Str(S_value))>>)]

\* per-call options: none, the retries override 0..MaxRetries, and the custom
\* options of the HttpClient tests
OptionSets ==
  {[retries |-> Num(k), retryDelay |-> Num(10)] : k \in 0..MaxRetries}
  \cup {NoConfig, CustomOptions}

\* the status lines a server answers with
Statuses ==
  {[status |-> 200, text |-> "OK"],
   [status |-> 404, text |-> "Not Found"],
   [status |-> 403, text |-> "Forbidden by network policy"],
   [status |-> 503, text |-> "Service Unavailable"]}

\* the messages of the TypeError a failed connection rejects fetch with
RejectMessages == {"fetch failed", "Network request failed"}

\* the messages of the SyntaxError of response.json(): on an HTML page, and (as V8
\* words it, quoting the body) on the plain text `timeout`
JsonErrors ==
  {"Unexpected token < in JSON at position 0",
   "Unexpected token 'i', \"timeout\" is not valid JSON"}

B_ok == Obj(<<KV(K_data, Arr(<<>>))>>)

B_apiError ==
  Obj(<<KV(K_error, Obj(<<KV(K_message, Str("API Error")), KV(K_code, Num(400)),
                         KV(K_type, Str("BAD_REQUEST"))>>))>>)

B_apiErrorNetwork ==
  Obj(<<KV(K_error, Obj(<<KV(K_message, Str("Invalid network id")), KV(K_code, Num(400)),
                         KV(K_type, Str("BAD_REQUEST"))>>))>>)

B_notFound == Obj(<<KV(K_Message, Str("Not found")), KV(K_code, Num(404))>>)

B_emptyMessage ==
  Obj(<<KV(K_Message, Str("")), KV(K_code, Num(404)), KV(K_type, Str("NOT_FOUND"))>>)

B_empty == Obj(<<>>)

\* the bodies response.json() resolves with
Bodies == {B_ok, B_apiError, B_apiErrorNetwork, B_notFound, B_emptyMessage, B_empty}


----------------------------------------------------------------------------
(* Specifications *)

InitFrom(envs, partials, ids) ==
  /\ env \in envs
  /\ \E partial \in partials :
       /\ config = Construct(partial, env).config
       /\ cfgOp = Construct(partial, env).cfgOp
  /\ calls = [c \in ids |-> IdleCall]
  /\ held = NoHeld
  /\ probe = NoProbe

Init == InitFrom({Undef}, {[apiKey |-> Str(S_k1)]}, {"a"})

Next ==
  \/ \E c \in DOMAIN calls, q \in Requests, options \in OptionSets :
       Request(c, S_locationSearch, q.payload, q.shape, q.response, options)
  \/ \E c \in DOMAIN calls, st \in Statuses : FetchResolve(c, st.status, st.text)
  \/ \E c \in DOMAIN calls, message \in RejectMessages : FetchReject(c, message)
  \/ \E c \in DOMAIN calls : TimeoutFire(c)
  \/ \E c \in DOMAIN calls : TimeoutPasses(c)
  \/ \E c \in DOMAIN calls, data \in Bodies : JsonResolve(c, data)
  \/ \E c \in DOMAIN calls, message \in JsonErrors : JsonReject(c, message)
  \/ \E c \in DOMAIN calls : DelayElapsed(c)
  \/ UpdateConfig([retries |-> Num(1), retryDelay |-> Num(500)])

\* the request pipeline: one call, with configuration updates around it
Spec == Init /\ [][Next]_vars

InitConfig == InitFrom(Envs, InitPartials, {"a"})

\* the assignments a caller makes to the object getConfig() gave it
Mutations == {[key |-> "apiKey", value |-> Str("modified")],
              [key |-> "timeout", value |-> Num(99999)]}

NextConfig ==
  \/ \E updates \in Updates : UpdateConfig(updates)
  \/ getConfig
  \/ \E m \in Mutations : MutateCopy(m.key, m.value)

\* the configuration store alone: every constructor argument, every update
SpecConfig == InitConfig /\ [][NextConfig]_vars

InitEncode ==
  InitFrom({Undef}, {[apiKey |-> Str(S_k1)],
                     [apiKey |-> Str(S_k1), baseUrl |-> Str(S_exampleBase)]}, {"a", "b"})

NextEncode ==
  \/ \E c \in DOMAIN calls, q \in EncodeRequests :
       Request(c, S_locationSearch, q.payload, q.shape, ResponseShape, NoConfig)
  \/ UpdateConfig([apiKey |-> Str("k 2")])

\* the request encoder: request() up to its first fetch, on every payload
SpecEncode == InitEncode /\ [][NextEncode]_vars

\* nothing, or one entry under key with a value of vals
OptKV(key, vals) == {<<>>} \cup {<<KV(key, v)>> : v \in vals}

\* the `error` sub-objects: message absent, empty or a text; code and type absent
\* or present
ErrorObjects ==
  {Obj(m \o k \o t) :
     m \in OptKV(K_message, {Str(""), Str("API error message")}),
     k \in OptKV(K_code, {Num(401)}),
     t \in OptKV(K_type, {Str("UNAUTHORIZED")})}

\* the values the static methods are called on: every combination of an `error`
\* field (a sub-object, null, a string), a `Message` field (empty or a text) and
\* top-level code and type; and null, undefined and a string
ProbeBodies ==
  {Obj(e \o m \o k \o t) :
     e \in OptKV(K_error, ErrorObjects \cup {Null, Str("failed")}),
     m \in OptKV(K_Message, {Str(""), Str("Not found")}),
     k \in OptKV(K_code, {Num(404)}),
     t \in OptKV(K_type, {Str("NOT_FOUND")})}
  \cup {Null, Undef, Str("Bad Gateway")}

NextErrors ==
  \/ \E response \in ProbeBodies : CallFromApiResponse(response)
  \/ \E response \in ProbeBodies : CallIsApiError(response)

\* the static methods of TripAdvisorError, called on every body
SpecErrors == Init /\ [][NextErrors]_vars

NextCancel ==
  \/ \E c \in DOMAIN calls, k \in 0..MaxRetries :
       Request(c, S_locationSearch, Obj(<<KV(K_searchQuery, Str(S_Paris))>>),
               PayloadShape, ResponseShape, [retries |-> Num(k), retryDelay |-> Num(10)])
  \/ \E c \in DOMAIN calls : FetchResolve(c, 200, "OK")
  \/ \E c \in DOMAIN calls, message \in RejectMessages : FetchReject(c, message)
  \/ \E c \in DOMAIN calls : TimeoutFire(c)
  \/ \E c \in DOMAIN calls, data \in {B_ok, B_empty} : JsonResolve(c, data)
  \/ \E c \in DOMAIN calls : DelayElapsed(c)
  \/ \E c \in DOMAIN calls : Cancel(c)

\* one call, given up by its caller at any moment it is suspended
SpecCancel == Init /\ [][NextCancel]_vars

\* JS array literal [v1, v2, ...]
List(values) == Arr([i \in 1..Len(values) |-> KV(NatToChars(i - 1), values[i])])

\* the bodies the API answers the client methods with
V_address ==
  Obj(<<KV("city", Str("Paris")), KV("state", Str("Ile-de-France")),
        KV("country", Str("France"))>>)

V_name == Obj(<<KV("name", Str("geographic")), KV("localized_name", Str("Geographic"))>>)

\* one search hit; `score` is a key LocationSearchResponseDataSchema does not declare
V_hit ==
  Obj(<<KV("location_id", Str("187147")), KV("name", Str("Paris")),
        KV("score", Num(1)), KV("address_obj", V_address)>>)

\* a hit without its address
V_badHit == Obj(<<KV("location_id", Str("187147")), KV("name", Str("Paris"))>>)

V_review ==
  Obj(<<KV("id", Str("1")), KV("lang", Str(S_en)), KV("text", Str("Great")),
        KV("title", Str("Nice")), KV("published_date", Str("2024-01-01")),
        KV("location_id", Str("187147")), KV("rating", Str("5")),
        KV("helpful_votes", Num(0)), KV("rating_image_url", Str("r.png")),
        KV("url", Str("u")), KV("trip_type", Str("Solo")),
        KV("travel_date", Str("2024-01")),
        KV("user", Obj(<<KV("username", Str("ann")),
                         KV("user_location", Obj(<<KV("id", Str("7"))>>))>>))>>)

V_photo ==
  Obj(<<KV("id", Str("9")), KV("is_blessed", Bool(TRUE)), KV("album", Str("Other")),
        KV("caption", Str("")), KV("published_date", Str("2024-01-01")),
        KV("images", Obj(<<KV("small", Obj(<<KV("url", Str("s.jpg")), KV("width", Num(150)),
                                             KV("height", Num(150))>>))>>)),
        KV("source", V_name), KV("user", Obj(<<KV("username", Str("ann"))>>))>>)

\* the fields every details response must carry
V_geosEntries ==
  <<KV("location_id", Str("187147")), KV("name", Str("Paris")), KV("web_url", Str("w")),
    KV("address_obj", V_address), KV("ancestors", List(<<>>)),
    KV("latitude", Str("48.85")), KV("longitude", Str("2.35")),
    KV("timezone", Str("Europe/Paris")), KV("category", V_name),
    KV("subcategory", List(<<V_name>>)), KV("neighborhood_info", List(<<>>)),
    KV("awards", List(<<>>))>>

B_searchHits == Obj(<<KV(K_data, List(<<V_hit>>))>>)
B_searchBadHit == Obj(<<KV(K_data, List(<<V_hit, V_badHit>>))>>)
B_reviews == Obj(<<KV(K_data, List(<<V_review>>))>>)
B_photos == Obj(<<KV(K_data, List(<<V_photo>>))>>)
B_geos == Obj(V_geosEntries)
B_restaurant ==
  Obj(V_geosEntries \o <<KV("features", List(<<Str("Takeout")>>)),
                          KV("cuisine", List(<<V_name>>)), KV("trip_types", List(<<>>))>>)

ClientBodies ==
  {B_searchHits, B_searchBadHit, B_reviews, B_photos, B_geos, B_restaurant,
   B_ok, B_emptyMessage, B_notFound}

\* the arguments the client methods are called with
SearchPayloads ==
  {Obj(<<KV(K_searchQuery, Str(S_Paris))>>),
   Obj(<<KV(K_searchQuery, Str(S_Paris)), KV("category", Str("hotels")),
         KV("radius", Num(5))>>),
   Obj(<<KV(K_searchQuery, Str(S_Paris)), KV("category", Str("bars"))>>),
   Obj(<<KV(K_searchQuery, Str(S_Paris)), KV("radius", Num(0 - 1))>>)}

DetailsPayloads == {Obj(<<KV(K_language, Str(S_fr))>>)}

ReviewsPayloads == {Obj(<<KV(K_limit, Num(10))>>), Obj(<<KV(K_limit, Str(S_test))>>)}

PhotoLimits == {Num(5), Undef}

LocationIds == {"187147"}

InitClient ==
  InitFrom({Undef}, {[apiKey |-> Str(S_k1), retries |-> Num(0)]}, {"a", "b"})

NextClient ==
  \/ \E c \in DOMAIN calls, payload \in SearchPayloads : LocationSearch(c, payload)
  \/ \E c \in DOMAIN calls, id \in LocationIds, payload \in DetailsPayloads :
       LocationDetails(c, id, payload)
  \/ \E c \in DOMAIN calls, id \in LocationIds, payload \in ReviewsPayloads :
       LocationReviews(c, id, payload)
  \/ \E c \in DOMAIN calls, id \in LocationIds, limit \in PhotoLimits :
       LocationPhotos(c, id, limit)
  \/ \E c \in DOMAIN calls : FetchResolve(c, 200, "OK")
  \/ \E c \in DOMAIN calls : FetchReject(c, "fetch failed")
  \/ \E c \in DOMAIN calls, data \in ClientBodies : JsonResolve(c, data)

\* two calls of the methods of a TripAdvisorClient built with retries: 0
SpecClient == InitClient /\ [][NextClient]_vars

\* bodies that satisfy the response shape and carry an `error` field that is no
\* object: { data: [], error: 'failed' } and { data: [], error: 500 }
B_errorString == Obj(<<KV(K_data, Arr(<<>>)), KV(K_error, Str("failed"))>>)

B_errorNumber == Obj(<<KV(K_data, Arr(<<>>)), KV(K_error, Num(500))>>)

\* { data: [], error: null }
B_errorNull == Obj(<<KV(K_data, Arr(<<>>)), KV(K_error, Null)>>)

ClassifyBodies == Bodies \cup {B_errorString, B_errorNumber, B_errorNull}

NextClassify ==
  \/ \E c \in DOMAIN calls, q \in Requests, k \in 0..1 :
       Request(c, S_locationSearch, q.payload, q.shape, q.response, [retries |-> Num(k)])
  \/ \E c \in DOMAIN calls : FetchResolve(c, 200, "OK")
  \/ \E c \in DOMAIN calls, data \in ClassifyBodies : JsonResolve(c, data)
  \/ \E c \in DOMAIN calls : DelayElapsed(c)

\* one call whose attempts are all answered with a body
SpecClassify == Init /\ [][NextClassify]_vars

\* configurations and overrides whose retry count is negative, zero, positive or
\* undefined
BudgetPartials ==
  {[apiKey |-> Str(S_k1), retries |-> Num(1)],
   [apiKey |-> Str(S_k1), retries |-> Num(0 - 1)],
   [apiKey |-> Str(S_k1), retries |-> Undef]}

BudgetOptions == {NoConfig, [retries |-> Num(0 - 1)], [retries |-> Num(0)]}

NextBudget ==
  \/ \E c \in DOMAIN calls, q \in Requests, options \in BudgetOptions :
       Request(c, S_locationSearch, q.payload, q.shape, q.response, options)
  \/ \E c \in DOMAIN calls, st \in Statuses : FetchResolve(c, st.status, st.text)
  \/ \E c \in DOMAIN calls, message \in RejectMessages : FetchReject(c, message)
  \/ \E c \in DOMAIN calls : TimeoutFire(c)
  \/ \E c \in DOMAIN calls, data \in Bodies : JsonResolve(c, data)
  \/ \E c \in DOMAIN calls, message \in JsonErrors : JsonReject(c, message)
  \/ \E c \in DOMAIN calls : DelayElapsed(c)

\* one call under every kind of effective retry count
SpecBudget == InitFrom({Undef}, BudgetPartials, {"a"}) /\ [][NextBudget]_vars

\* the fields of TripAdvisorConfig that DEFAULT_CONFIG fills
DefaultedKeys == {"baseUrl", "language", "currency", "timeout", "retries", "retryDelay"}

\* partials that carry a field explicitly set to undefined, next to ordinary ones
UndefPartials ==
  {[apiKey |-> Str(S_k1)],
   [apiKey |-> Str(S_k1), retries |-> Undef],
   [apiKey |-> Str(S_k1), timeout |-> Num(45000), language |-> Undef]}

UndefUpdates ==
  {[key \in {k} |-> Undef] : k \in DefaultedKeys}
  \cup {[timeout |-> Num(45000)], [apiKey |-> Str("")],
        [language |-> Str(S_fr), currency |-> Undef]}

NextUndef ==
  \/ \E updates \in UndefUpdates : UpdateConfig(updates)
  \/ getConfig

\* construction, updates and reads with partials that may carry undefined fields
SpecUndef == InitFrom({Undef}, UndefPartials, {"a"}) /\ [][NextUndef]_vars

\* the calls of the specification with fairness
LiveIds == {"a"}

\* the Transport attempt of call c completes: fetch settles, or the body read does
AttemptCompletes(c) ==
  \/ \E st \in Statuses : FetchResolve(c, st.status, st.text)
  \/ \E message \in RejectMessages : FetchReject(c, message)
  \/ TimeoutFire(c)
  \/ \E data \in Bodies : JsonResolve(c, data)
  \/ \E message \in JsonErrors : JsonReject(c, message)

NextLive ==
  \/ \E c \in LiveIds, q \in Requests, k \in 0..MaxRetries :
       Request(c, S_locationSearch, q.payload, q.shape, q.response, [retries |-> Num(k)])
  \/ \E c \in LiveIds : AttemptCompletes(c)
  \/ \E c \in LiveIds : DelayElapsed(c)

\* one call in an environment where every pending fetch, body read and backoff
\* timer eventually completes
SpecLive ==
  /\ InitFrom({Undef}, {[apiKey |-> Str(S_k1)]}, LiveIds)
  /\ [][NextLive]_vars
  /\ \A c \in LiveIds : WF_vars(AttemptCompletes(c)) /\ WF_vars(DelayElapsed(c))

InitConc == InitFrom({Undef}, {[apiKey |-> Str(S_k1)]}, {"a", "b"})

\* the update that changes every value a call captures
UpdateAll ==
  [apiKey |-> Str(S_k2), baseUrl |-> Str(S_exampleBase), timeout |-> Num(45000),
   retries |-> Num(1), retryDelay |-> Num(500)]

NextConc ==
  \/ \E c \in DOMAIN calls,
          options \in {NoConfig, [retries |-> Num(MaxRetries)], CustomOptions,
                       HeaderOptions} :
       Request(c, S_locationSearch, Obj(<<KV(K_searchQuery, Str(S_Paris))>>),
               PayloadShape, ResponseShape, options)
  \/ \E c \in DOMAIN calls : FetchResolve(c, 200, "OK")
  \/ \E c \in DOMAIN calls : TimeoutFire(c)
  \/ \E c \in DOMAIN calls : JsonResolve(c, B_ok)
  \/ \E c \in DOMAIN calls : DelayElapsed(c)
  \/ UpdateConfig(UpdateAll)

\* two concurrent calls, with a configuration update interleaved
SpecConc == InitConc /\ [][NextConc]_vars

----------------------------------------------------------------------------
(* The properties *)

Last(seq) == seq[Len(seq)]

Is4xx(e) == e.cause = "http" /\ e.status >= 400 /\ e.status <= 499

Is5xx(e) == e.cause = "http" /\ e.status >= 500 /\ e.status <= 599

\* a retryable failure as the specification defines it: a timeout, a connection
\* failure or a 5xx status
RetryableFailure(e) == e.cause \in {"timeout", "connection"} \/ Is5xx(e)

\* the call has a numeric retry count N >= 0
HasBudget(r) == r.retries.t = "number" /\ r.retries.n >= 0

\* C1: for every retry count N >= 0, a call all of whose Transport attempts failed
\* with a retryable failure (timeout, connection failure, 5xx) has invoked
\* Transport exactly N + 1 times and surfaces the error of the last attempt.
C1_AllRetryableMakesNPlus1Attempts ==
  \A c \in DOMAIN calls :
    LET r == calls[c]
    IN (/\ r.pc = "done"
        /\ r.outcome = "fail"
        /\ HasBudget(r)
        /\ r.errs # <<>>
        /\ Len(r.errs) = r.fetches
        /\ \A i \in 1..Len(r.errs) : RetryableFailure(r.errs[i]))
       => /\ r.fetches = r.retries.n + 1
          /\ r.thrown = Last(r.errs)

\* C2: a call that succeeds after k failed attempts (k <= retries) returns the
\* validated payload of attempt k + 1, has invoked Transport exactly k + 1 times
\* and waited k times, and nothing of the call changes after the success.
C2_SuccessAfterRetries ==
  /\ [](\A c \in DOMAIN calls :
          LET r == calls[c]
          IN r.outcome = "ok"
             => /\ r.pc = "done"
                /\ ~r.timer
                /\ HasBudget(r)
                /\ Len(r.errs) <= r.retries.n
                /\ r.fetches = Len(r.errs) + 1
                /\ Len(r.waits) = Len(r.errs)
                /\ ~isApiError(r.body)
                /\ Parse(r.responseSchema, r.body).ok
                /\ r.result = Parse(r.responseSchema, r.body).value)
  /\ [][\A c \in DOMAIN calls : calls[c].outcome = "ok" => calls'[c] = calls[c]]_vars

\* scenario B: two timeouts, then { data: [] } on the third attempt, retries = 2
C2_Witness ==
  \E c \in DOMAIN calls :
    LET r == calls[c]
    IN /\ r.outcome = "ok"
       /\ r.retries = Num(2)
       /\ Len(r.errs) = 2
       /\ \A i \in 1..2 : r.errs[i].cause = "timeout"
       /\ r.fetches = 3
       /\ r.result = B_ok

\* C3: an attempt that ends with a 5xx status at attempt index n < retries does
\* not fail the call: the call ends with a 5xx error only on its last attempt.
C3_5xxIsRetried ==
  \A c \in DOMAIN calls :
    LET r == calls[c]
    IN (r.pc = "done" /\ r.errs # <<>> /\ HasBudget(r) /\ Is5xx(Last(r.errs)))
       => Len(r.errs) = r.retries.n + 1

\* C4: an attempt that ends with a 4xx status fails the call at once, whatever the
\* status text: no backoff wait and no further attempt follows it.
C4_4xxFailsImmediately ==
  \A c \in DOMAIN calls :
    LET r == calls[c]
    IN \A i \in 1..Len(r.errs) :
         Is4xx(r.errs[i])
         => /\ r.pc = "done"
            /\ r.outcome = "fail"
            /\ r.thrown = r.errs[i]
            /\ Len(r.errs) = i
            /\ r.fetches = i
            /\ Len(r.waits) = i - 1

\* C5: a body classified as an API error ends the call with that error, whatever
\* its message: Transport is not invoked again.
C5_ApiErrorIsTerminal ==
  \A c \in DOMAIN calls :
    LET r == calls[c]
    IN \A i \in 1..Len(r.errs) :
         r.errs[i].isApiError
         => /\ r.pc = "done"
            /\ r.outcome = "fail"
            /\ r.thrown = r.errs[i]
            /\ Len(r.errs) = i
            /\ r.fetches = i
            /\ Len(r.waits) = i - 1

\* a body of one of the two envelopes: an `error` sub-object, or a top-level
\* `Message` field
MatchesEnvelope(data) ==
  /\ data.t = "object"
  /\ \/ Get(data, K_error).t = "object"
     \/ HasKey(data.o, K_Message)

\* C6: for every body that matches an API-error envelope, whatever its message,
\* code and type, the call fails with an API error and the response validator
\* is never applied to the body.
C6_EnvelopeNeverValidated ==
  \A c \in DOMAIN calls :
    LET r == calls[c]
    IN MatchesEnvelope(r.body)
       => /\ r.pc = "done"
          /\ r.outcome = "fail"
          /\ r.thrown.isApiError
          /\ \A i \in 1..Len(r.validated) : r.validated[i] # r.body

\* a parameter set that fails a shape: a required field missing, or a field of
\* the wrong type
FailsShape(shape, payload) ==
  \E i \in 1..Len(shape) :
    LET f == shape[i]
        x == Lookup(payload.o, f.k)
    IN IF x.t = "undefined" THEN ~f.optional /\ f.dflt = Undef
       ELSE IF x.t = "null" THEN ~f.nullable
       ELSE f.type # "any" /\ ParsedType(x) # TypeChars(f.type)

\* C7: a call whose parameters fail their shape fails with ValidationError
\* without encoding a URL or invoking Transport, and its start leaves the stored
\* configuration unchanged.
C7_InvalidParamsNoSideEffects ==
  /\ [](\A c \in DOMAIN calls :
          LET r == calls[c]
          IN (r.pc # "idle" /\ FailsShape(r.args.payloadSchema, r.args.payload))
             => /\ r.pc = "done"
                /\ r.outcome = "fail"
                /\ r.thrown.cls = "ValidationError"
                /\ r.thrown.cause = "params"
                /\ r.fetches = 0
                /\ r.sent = <<>>
                /\ r.encoded = 0
                /\ r.url = ""
                /\ r.waits = <<>>)
  /\ [][\A c \in DOMAIN calls :
          (calls[c].pc = "idle" /\ calls'[c].pc # "idle") => config' = config]_vars

\* { invalidField: 'test' } against mockPayloadSchema, and a wrong type
C7_Witness ==
  \E c \in DOMAIN calls :
    LET r == calls[c]
    IN /\ r.pc = "done"
       /\ r.thrown.cls = "ValidationError"
       /\ r.fetches = 0
       /\ FailsShape(r.args.payloadSchema, r.args.payload)
       /\ ~HasKey(r.args.payload.o, K_searchQuery)
       /\ r.args.payloadSchema = PayloadShape

\* the last configuration call was update() with an empty credential
EmptyKeyUpdate == cfgOp.op = "update" /\ Field(cfgOp.arg, "apiKey") = Str("")

ConfigKeys == {"apiKey", "baseUrl", "language", "currency", "timeout", "retries", "retryDelay"}

\* C9: the stored credential is always a non-empty string; after an update the
\* stored configuration is either the prior one (the update threw) or the
\* complete merge of the prior one and the update, never a part of it.
C9_CredentialNonEmptyUpdateAtomic ==
  /\ config = NoConfig => cfgOp.op = "new" /\ cfgOp.threw
  /\ config # NoConfig
     => /\ DOMAIN config = ConfigKeys
        /\ config["apiKey"].t = "string"
        /\ config["apiKey"].s # ""
        /\ cfgOp.op = "update" /\ cfgOp.threw => config = cfgOp.before
        /\ cfgOp.op = "update" /\ ~cfgOp.threw
           => \A key \in ConfigKeys :
                config[key] =
                  IF key = "apiKey"
                    THEN (IF Truthy(Field(cfgOp.arg, key)) THEN cfgOp.arg[key]
                          ELSE IF key \in DOMAIN cfgOp.arg THEN env
                          ELSE cfgOp.before[key])
                  ELSE IF key \in DOMAIN cfgOp.arg THEN cfgOp.arg[key]
                  ELSE cfgOp.before[key]

\* a successful update has replaced three fields and kept the credential
C9_Witness ==
  /\ cfgOp.op = "update"
  /\ ~cfgOp.threw
  /\ config # cfgOp.before
  /\ config["apiKey"] = cfgOp.before["apiKey"]
  /\ config["timeout"] = Num(45000)
  /\ config["language"] = Str(S_fr)

\* C10: every attempt of a call carries the URL, timeout and retry budget fixed
\* from the configuration stored when the call started and from its options; a
\* call takes the configuration stored at its start; a step of one call or an
\* update changes no other call.
C10_CallCapturesConfigAtStart ==
  /\ [](\A c \in DOMAIN calls :
          LET r == calls[c]
              o == r.args.options
              sc == r.startCfg
          IN r.pc # "idle"
             => /\ r.timeout = Opt(o, "timeout", Field(sc, "timeout"))
                /\ r.retries = Opt(o, "retries", Field(sc, "retries"))
                /\ r.retryDelay = Opt(o, "retryDelay", Field(sc, "retryDelay"))
                /\ HasBudget(r) => r.fetches <= r.retries.n + 1
                /\ r.pc \in {"fetch", "json"} => r.attempt = r.fetches - 1
                /\ \A i \in 1..Len(r.waits) :
                     r.waits[i] = BackoffMs(Opt(o, "retryDelay", Field(sc, "retryDelay")), i - 1)
                /\ \A i \in 1..Len(r.sent) :
                     /\ r.sent[i].url =
                          ToChars(sc["baseUrl"]) \o r.args.endpoint \o "?"
                          \o Serialize(QueryPairs(sc, Parse(r.args.payloadSchema,
                                                            r.args.payload).value))
                     /\ r.sent[i].timeout = Opt(o, "timeout", Field(sc, "timeout")))
  /\ [][\A c \in DOMAIN calls :
          /\ (calls[c].pc = "idle" /\ calls'[c].pc # "idle") => calls'[c].startCfg = config
          /\ calls'[c] # calls[c]
             => /\ config' = config
                /\ \A d \in (DOMAIN calls) \ {c} : calls'[d] = calls[d]]_vars

\* call "a" makes its second attempt after an update changed the credential, the
\* base address, the timeout and the retry count, with the URL and timeout of its
\* first attempt; call "b", started after the update, uses the new values
C10_Witness ==
  /\ Len(calls["a"].sent) = 2
  /\ calls["a"].sent[1].live = calls["a"].startCfg
  /\ calls["a"].sent[2].live # calls["a"].startCfg
  /\ calls["a"].sent[2].url = calls["a"].sent[1].url
  /\ calls["a"].sent[2].timeout = Num(DefaultTimeout)
  /\ calls["a"].args.options = NoConfig
  /\ calls["a"].attempt = 1
  /\ calls["b"].pc = "fetch"
  /\ calls["b"].attempt = 0
  /\ calls["b"].startCfg = config
  /\ calls["b"].sent[1].timeout = Num(45000)
  /\ calls["b"].sent[1].url # calls["a"].sent[1].url

\* the classes of errors.ts: ApiError is TripAdvisorError; the source declares no
\* class for a transport failure
TypedErrorKinds == {"ConfigurationError", "ValidationError", "TripAdvisorError"}

\* C11: every failed call surfaces one of the typed error kinds: no connection,
\* timeout, HTTP-status or body-parse failure reaches the caller as an error of
\* another class.
C11_FailureIsTyped ==
  \A c \in DOMAIN calls :
    calls[c].outcome = "fail" => calls[c].thrown.cls \in TypedErrorKinds

\* C12: when the timeout duration has passed in an attempt whose exchange was
\* not complete (status and body both obtained), the attempt has failed with a
\* timeout failure, and that failure is retryable.
C12_TimeoutCancelsExchange ==
  \A c \in DOMAIN calls :
    LET r == calls[c]
    IN r.overdue
       => /\ Len(r.errs) = r.fetches
          /\ Last(r.errs).cause = "timeout"
          /\ isRetryableError(Last(r.errs))

\* C13: after a retryable failure (timeout, connection failure, 5xx) at attempt
\* index n < retries the call waits exactly retryDelay * 2^n; after the final
\* attempt or a failure of another kind it does not wait.
C13_BackoffDoublesPerAttempt ==
  \A c \in DOMAIN calls :
    LET r == calls[c]
    IN (HasBudget(r) /\ r.retryDelay.t = "number")
       => \A i \in 1..Len(r.errs) :
            IF RetryableFailure(r.errs[i]) /\ i - 1 < r.retries.n
              THEN /\ Len(r.waits) >= i
                   /\ r.waits[i] = Num(r.retryDelay.n * 2^(i - 1))
              ELSE Len(r.waits) < i

\* C14: a body that is not an API error and fails the response shape at attempt
\* index n ends the call with that ValidationError, whatever the text of the
\* validation message: Transport has been invoked n + 1 times and no wait follows.
C14_ResponseValidationIsTerminal ==
  \A c \in DOMAIN calls :
    LET r == calls[c]
    IN \A i \in 1..Len(r.errs) :
         r.errs[i].cause = "response"
         => /\ r.errs[i].cls = "ValidationError"
            /\ r.pc = "done"
            /\ r.outcome = "fail"
            /\ r.thrown = r.errs[i]
            /\ Len(r.errs) = i
            /\ r.fetches = i
            /\ Len(r.waits) = i - 1

\* the position of the first occurrence of the character ch in str, 0 if none
FirstIndex(str, ch) ==
  IF \E i \in 1..Len(str) : SubSeq(str, i, i) = ch
    THEN CHOOSE i \in 1..Len(str) :
           /\ SubSeq(str, i, i) = ch
           /\ \A j \in 1..(i - 1) : SubSeq(str, j, j) # ch
    ELSE 0

RECURSIVE SplitOn(_, _)
\* the pieces of str between the occurrences of the character ch
SplitOn(str, ch) ==
  LET i == FirstIndex(str, ch)
  IN IF i = 0 THEN <<str>>
     ELSE <<SubSeq(str, 1, i - 1)>> \o SplitOn(SubSeq(str, i + 1, Len(str)), ch)

\* what precedes the `?` of a URL
PathOf(url) == SubSeq(url, 1, FirstIndex(url, "?") - 1)

\* the key=value arguments of a URL's query, read off the URL text
PairsOf(url) ==
  LET query == SubSeq(url, FirstIndex(url, "?") + 1, Len(url))
      segs == IF query = "" THEN <<>> ELSE SplitOn(query, "&")
  IN [i \in 1..Len(segs) |->
        [k |-> SubSeq(segs[i], 1, FirstIndex(segs[i], "=") - 1),
         v |-> SubSeq(segs[i], FirstIndex(segs[i], "=") + 1, Len(segs[i]))]]

\* the validated value of a call's parameters
Validated(r) == Parse(r.args.payloadSchema, r.args.payload).value

Absent(v) == v.t \in {"undefined", "null"}

\* C15: in the URL a call encoded, a field of the validated value that is null
\* or undefined has no query key, and every other field has exactly one
\* key=value argument, carrying the text of its value.
C15_AbsentFieldsHaveNoKey ==
  \A c \in DOMAIN calls :
    LET r == calls[c]
        pairs == PairsOf(r.url)
    IN r.encoded > 0
       => \A i \in 1..Len(Validated(r).o) :
            LET f == Validated(r).o[i]
                at == {j \in 1..Len(pairs) : pairs[j].k = EncChars(f.k)}
            IN IF Absent(f.v) THEN at = {}
               ELSE /\ Cardinality(at) = 1
                    /\ \A j \in at : pairs[j].v = EncChars(ToChars(f.v))

\* the test of the filter: language undefined and currency null leave exactly
\* key, searchQuery and validParam in the URL
C15_Witness ==
  \E c \in DOMAIN calls :
    LET r == calls[c]
    IN /\ r.encoded = 1
       /\ Lookup(Validated(r).o, K_currency) = Null
       /\ HasKey(Validated(r).o, K_language)
       /\ Lookup(Validated(r).o, K_language) = Undef
       /\ r.url = "https://api.content.tripadvisor.com/api/v1/location/search"
                  \o "?key=k1&searchQuery=test&validParam=value"

Present(e) == ~Absent(e.v)

\* C16: a call's URL is base + path + '?' + arguments, where the first argument is
\* the credential under `key` and the following ones are the non-absent fields of
\* the validated value, one each, in the order of the validated value.
C16_KeyFirstThenFieldsInOrder ==
  \A c \in DOMAIN calls :
    LET r == calls[c]
        pairs == PairsOf(r.url)
        fields == SelectSeq(Validated(r).o, Present)
    IN r.encoded > 0
       => /\ PathOf(r.url) = r.startCfg["baseUrl"].s \o r.args.endpoint
          /\ Len(pairs) = 1 + Len(fields)
          /\ pairs[1] = [k |-> "key", v |-> EncChars(r.startCfg["apiKey"].s)]
          /\ \A i \in 1..Len(fields) :
               pairs[i + 1] = [k |-> EncChars(fields[i].k),
                               v |-> EncChars(ToChars(fields[i].v))]

\* scenario A: credential k1, base https://api.example/v1, params
\* {searchQuery: Paris, language: en}; and a payload whose fields were given in
\* another order than its schema declares
C16_Witness ==
  /\ \E c \in DOMAIN calls :
       calls[c].url = "https://api.example/v1/location/search"
                      \o "?key=k1&searchQuery=Paris&language=en"
  /\ \E c \in DOMAIN calls :
       /\ calls[c].pc # "idle"
       /\ calls[c].args.payload.o[1].k = K_offset
       /\ calls[c].url = "https://api.example/v1/location/search"
                         \o "?key=k1&language=en&limit=0&offset=10"

\* C17: getConfig() hands out the content of the stored configuration, and an
\* assignment to a field of the object it handed out changes neither the stored
\* configuration nor, therefore, what a later getConfig() or getter returns.
C17_ReadReturnsIndependentCopy ==
  /\ [][(held'.has /\ ~held.has) => held'.value = config]_vars
  /\ [][held'.value # held.value => config' = config]_vars

\* the test of getConfig: the copy's credential was overwritten with 'modified',
\* its timeout too, and the store still holds what the constructor built
C17_Witness ==
  /\ held.has
  /\ held.value["apiKey"] = Str("modified")
  /\ held.value["timeout"] = Num(99999)
  /\ cfgOp.op = "new"
  /\ config["apiKey"] = Str(S_k1)
  /\ config["timeout"] = Num(DefaultTimeout)

\* the built-in defaults, as the specification lists them
BuiltIn ==
  [baseUrl |-> Str("https://api.content.tripadvisor.com/api/v1"),
   language |-> Str("en"), currency |-> Str("USD"),
   timeout |-> Num(30000), retries |-> Num(3), retryDelay |-> Num(1000)]

\* C18: after a successful update every field the partial does not name has its
\* prior value and every field it names has the partial's value (the credential:
\* when the partial's is non-empty); after construction every field the partial
\* does not supply has its built-in default and every supplied one its value.
C18_MergeKeepsUnnamedFields ==
  /\ (cfgOp.op = "update" /\ ~cfgOp.threw)
     => \A key \in ConfigKeys :
          IF key \notin DOMAIN cfgOp.arg THEN config[key] = cfgOp.before[key]
          ELSE (key # "apiKey" \/ Truthy(cfgOp.arg[key])) => config[key] = cfgOp.arg[key]
  /\ (cfgOp.op = "new" /\ ~cfgOp.threw)
     => /\ DOMAIN config = ConfigKeys
        /\ \A key \in DOMAIN BuiltIn :
             config[key] = IF key \in DOMAIN cfgOp.arg THEN cfgOp.arg[key] ELSE BuiltIn[key]

\* a store built with its own base address and otherwise defaults; the update
\* {language, currency, timeout} replaced those three and kept the base address,
\* the credential, retries and retryDelay
C18_Witness ==
  /\ cfgOp.op = "update"
  /\ ~cfgOp.threw
  /\ DOMAIN cfgOp.arg = {"language", "currency", "timeout"}
  /\ cfgOp.before["baseUrl"] = Str(S_exampleBase)
  /\ cfgOp.before["timeout"] = Num(30000)
  /\ config["baseUrl"] = Str(S_exampleBase)
  /\ config["apiKey"] = Str(S_k1)
  /\ config["language"] = Str(S_fr)
  /\ config["currency"] = Str(S_GBP)
  /\ config["timeout"] = Num(45000)
  /\ config["retries"] = Num(3)
  /\ config["retryDelay"] = Num(1000)

\* C19: a non-empty explicit credential, given to the constructor or to an
\* update, is the stored one whatever the environment holds; a constructor given
\* none stores the environment's; with neither, construction fails and no
\* configuration exists.
C19_CredentialResolutionOrder ==
  LET explicit == Field(cfgOp.arg, "apiKey")
  IN /\ Truthy(explicit) => ~cfgOp.threw /\ config["apiKey"] = explicit
     /\ (cfgOp.op = "new" /\ ~Truthy(explicit))
        => IF Truthy(env) THEN ~cfgOp.threw /\ config["apiKey"] = env
           ELSE cfgOp.threw /\ config = NoConfig

\* the test of the priority: the environment holds 'env-key', the constructor is
\* given another credential, and that one is stored
C19_Witness ==
  /\ cfgOp.op = "new"
  /\ env = Str(S_envKey)
  /\ Field(cfgOp.arg, "apiKey") = Str(S_k1)
  /\ config # NoConfig
  /\ config["apiKey"] = Str(S_k1)

Tunables == {"timeout", "retries", "retryDelay"}

\* C20: a call's start leaves the stored configuration unchanged whatever its
\* options, and gives the call, for each of method, headers, timeout, retries
\* and retryDelay, its own option if it has one and otherwise GET, the two JSON
\* headers and the value stored at that moment: the options of another call,
\* earlier or concurrent, play no part.
C20_OverridesAreLocalToTheCall ==
  [][\A c \in DOMAIN calls :
       (calls[c].pc = "idle" /\ calls'[c].pc # "idle")
       => LET r == calls'[c]
              o == r.args.options
          IN /\ config' = config
             /\ \A key \in Tunables :
                  r[key] = IF key \in DOMAIN o THEN o[key] ELSE config[key]
             /\ r.method = IF "method" \in DOMAIN o THEN o["method"] ELSE Str("GET")
             /\ r.headers = buildHeaders(IF "headers" \in DOMAIN o
                                            THEN o["headers"].o ELSE <<>>)]_vars

\* call "a" ran with the custom options (POST, a header, timeout 5000, retries 2,
\* retryDelay 500); call "b", started after it without options, goes out with
\* GET and the stored timeout 30000, retries 3 and retryDelay 1000
C20_Witness ==
  /\ calls["a"].seq = 0
  /\ calls["a"].args.options = CustomOptions
  /\ calls["a"].sent[1].timeout = Num(5000)
  /\ calls["a"].sent[1].method = Str(S_POST)
  /\ calls["a"].retries = Num(2)
  /\ calls["b"].seq = 1
  /\ calls["b"].args.options = NoConfig
  /\ calls["b"].sent[1].timeout = Num(30000)
  /\ calls["b"].sent[1].method = Str(S_GET)
  /\ calls["b"].retries = Num(3)
  /\ calls["b"].retryDelay = Num(1000)
  /\ config = calls["a"].startCfg
  /\ config["timeout"] = Num(30000)

\* C21: the error fromApiResponse builds is an API error; from a body with an
\* `error` sub-object it takes the sub-object's message (the placeholder when it
\* has none), code and type; from a body with a top-level `Message` it takes
\* Message and the top-level code and type; from any other body the placeholder,
\* no code and no type.
C21_ApiErrorCarriesEnvelopeFields ==
  probe.fn = "fromApiResponse"
  => LET b == probe.arg
         e == probe.err
         sub == Get(b, K_error)
     IN /\ e.cls = "TripAdvisorError"
        /\ e.isApiError
        /\ IF sub.t = "object"
             THEN /\ e.message = IF Truthy(Get(sub, K_message))
                                   THEN Get(sub, K_message).s ELSE "Unknown API error"
                  /\ e.code = Get(sub, K_code)
                  /\ e.type = Get(sub, K_type)
           ELSE IF b.t = "object" /\ HasKey(b.o, K_Message)
             THEN /\ e.message = Get(b, K_Message).s
                  /\ e.code = Get(b, K_code)
                  /\ e.type = Get(b, K_type)
           ELSE /\ e.message = "Unknown API error"
                /\ e.code = Undef
                /\ e.type = Undef

\* C22: once the caller has given up a call that was suspended in the network
\* exchange or in the backoff wait, the call is over (no exchange in flight, no
\* wait pending) and has made no Transport attempt since.
C22_CancellationStopsTheCall ==
  \A c \in DOMAIN calls :
    LET r == calls[c]
    IN r.cancelAt >= 0
       => /\ r.pc = "done"
          /\ ~r.timer
          /\ r.fetches = r.cancelAt

\* the character a percent-escape stands for
Unescape(code) ==
  CASE code = "%3A" -> ":"
    [] code = "%2F" -> "/"
    [] code = "%26" -> "&"
    [] code = "%3D" -> "="
    [] code = "%2B" -> "+"
    [] code = "%25" -> "%"
    [] code = "%3F" -> "?"
    [] code = "%2C" -> ","
    [] code = "%5B" -> "["
    [] code = "%5D" -> "]"
    [] OTHER -> code

RECURSIVE DecChars(_)
\* the text a form-urlencoded name or value decodes to: + is the space, %XX the
\* escaped character
DecChars(chars) ==
  IF chars = "" THEN ""
  ELSE IF SubSeq(chars, 1, 1) = "+" THEN " " \o DecChars(SubSeq(chars, 2, Len(chars)))
  ELSE IF SubSeq(chars, 1, 1) = "%" /\ Len(chars) >= 3
    THEN Unescape(SubSeq(chars, 1, 3)) \o DecChars(SubSeq(chars, 4, Len(chars)))
  ELSE SubSeq(chars, 1, 1) \o DecChars(SubSeq(chars, 2, Len(chars)))

\* the decoded arguments of a URL's query, without the credential
DecodedFields(url) ==
  {p \in {[k |-> DecChars(PairsOf(url)[i].k), v |-> DecChars(PairsOf(url)[i].v)] :
            i \in 1..Len(PairsOf(url))} : p.k # "key"}

\* C23: the query of a call's URL, decoded and without the credential key, is
\* exactly the set of the non-absent fields of the validated value, each with the
\* text of its value.
C23_QueryRoundTrip ==
  \A c \in DOMAIN calls :
    LET r == calls[c]
        fields == SelectSeq(Validated(r).o, Present)
    IN r.encoded > 0
       => /\ DecodedFields(r.url) =
               {[k |-> fields[i].k, v |-> ToChars(fields[i].v)] : i \in 1..Len(fields)}
          /\ Len(PairsOf(r.url)) = 1 + Len(fields)

\* a value with the reserved characters & and =, an empty value and a null
\* field: the URL escapes the first, and decoding gives the two fields back
C23_Witness ==
  \E c \in DOMAIN calls :
    LET r == calls[c]
    IN /\ r.encoded = 1
       /\ Lookup(r.args.payload.o, K_validParam) = Str("a&b=c")
       /\ Lookup(r.args.payload.o, K_currency) = Null
       /\ Includes(r.url, "&searchQuery=&validParam=a%26b%3Dc")
       /\ DecodedFields(r.url) = {[k |-> "searchQuery", v |-> ""],
                                  [k |-> "validParam", v |-> "a&b=c"]}

\* C24: a 2xx response whose body is not JSON ends the call with that failure,
\* whatever the retry budget left and the text of the parse error: no wait and
\* no further Transport attempt follows.
C24_UnparsableBodyIsTerminal ==
  \A c \in DOMAIN calls :
    LET r == calls[c]
    IN \A i \in 1..Len(r.errs) :
         r.errs[i].cause = "parse"
         => /\ r.pc = "done"
            /\ r.outcome = "fail"
            /\ r.thrown = r.errs[i]
            /\ Len(r.errs) = i
            /\ r.fetches = i
            /\ Len(r.waits) = i - 1

\* the names of a header list
Names(entries) == {entries[i].k : i \in 1..Len(entries)}

\* C25: every attempt is sent with the method of the options (GET when they have
\* none) and with one header per name among Accept, Content-Type and the
\* caller's names; a header has the caller's value if the caller gave the name
\* and application/json otherwise.
C25_MethodAndHeadersOfEveryAttempt ==
  \A c \in DOMAIN calls :
    LET r == calls[c]
        o == r.args.options
        custom == IF "headers" \in DOMAIN o THEN o["headers"].o ELSE <<>>
    IN \A i \in 1..Len(r.sent) :
         LET h == r.sent[i].headers
         IN /\ r.sent[i].method = IF "method" \in DOMAIN o THEN o["method"] ELSE Str("GET")
            /\ Names(h) = {"Accept", "Content-Type"} \cup Names(custom)
            /\ Len(h) = Cardinality(Names(h))
            /\ \A name \in Names(h) :
                 Lookup(h, name) = IF HasKey(custom, name) THEN Lookup(custom, name)
                                   ELSE Str("application/json")

\* a call given Content-Type: text/plain and Custom-Header sends both its attempts
\* with Accept: application/json, Content-Type: text/plain and Custom-Header
C25_Witness ==
  \E c \in DOMAIN calls :
    LET r == calls[c]
    IN /\ Len(r.sent) = 2
       /\ r.args.options = HeaderOptions
       /\ r.sent[2].method = Str("GET")
       /\ Len(r.sent[2].headers) = 3
       /\ Lookup(r.sent[2].headers, "Accept") = Str("application/json")
       /\ Lookup(r.sent[2].headers, "Content-Type") = Str("text/plain")
       /\ Lookup(r.sent[2].headers, "Custom-Header") = Str("value")

----------------------------------------------------------------------------
(* The methods of TripAdvisorClient *)

\* the endpoint path a method calls request() with
EndpointOf(api, locationId) ==
  IF api = "search" THEN "/location/search"
  ELSE "/location/" \o locationId \o "/" \o api

\* what responseSchema.parse gave for the body the call resolved with
ValidatedResponse(r) == Parse(r.responseSchema, Last(r.validated)).value

\* C26: locationSearch, locationReviews and locationPhotos make one pipeline call on
\* their endpoint path and return exactly the `data` array of the validated
\* response; when the validated response has no `data` field they fail with
\* TripAdvisorError; locationDetails returns the validated response unchanged.
C26_ClientMethodsUnwrapData ==
  \A c \in DOMAIN calls :
    LET r == calls[c]
    IN r.client.api # "none" =>
         /\ r.pc # "idle" => /\ r.args.endpoint = EndpointOf(r.client.api, r.client.locationId)
                             /\ r.encoded <= 1
         /\ r.fetches > 0 =>
              /\ r.encoded = 1
              /\ \A i \in 1..Len(r.sent) :
                   PathOf(r.sent[i].url) = config.baseUrl.s \o r.args.endpoint
         /\ r.pc # "done" => r.client.outcome = "none"
         /\ (r.pc = "done" /\ r.outcome = "ok") =>
              LET v == ValidatedResponse(r)
              IN IF r.client.api = "details"
                   THEN r.client.outcome = "ok" /\ r.client.result = v
                 ELSE IF HasKey(v.o, K_data)
                   THEN /\ r.client.outcome = "ok"
                        /\ r.client.result = Get(v, K_data)
                        /\ r.client.result.t = "array"
                 ELSE /\ r.client.outcome = "fail"
                      /\ r.client.thrown.cls = "TripAdvisorError"

\* one method returned a non-empty data array whose validation dropped an undeclared
\* key, the other failed because its validated response carries no `data`
C26_Witness ==
  \E c, d \in DOMAIN calls :
    /\ calls[c].client.api \in {"search", "reviews", "photos"}
    /\ calls[c].client.outcome = "ok"
    /\ Len(calls[c].client.result.o) > 0
    /\ calls[c].client.result # Get(calls[c].body, K_data)
    /\ calls[d].client.api \in {"search", "reviews", "photos"}
    /\ calls[d].outcome = "ok"
    /\ calls[d].client.outcome = "fail"
    /\ calls[d].client.thrown.message
         = "Invalid " \o calls[d].client.api \o " response format"

----------------------------------------------------------------------------
(* Termination of the retry loop *)

\* the call has settled: Succeeded or Failed
Terminal(r) == r.outcome # "none"

\* C27: the retry executor starts in Attempting(0) and, for every non-negative retry
\* count, reaches a terminal outcome provided each Transport attempt and each
\* backoff wait completes; the number of Transport invocations of the call is at
\* most retries + 1 in every reachable state, and once the outcome is terminal no
\* further Transport invocation or wait occurs.
C27_RetryLoopTerminates ==
  /\ [](\A c \in LiveIds :
          HasBudget(calls[c]) => calls[c].fetches <= calls[c].retries.n + 1)
  /\ [][\A c \in LiveIds :
          /\ (calls[c].pc = "idle" /\ calls'[c].pc # "idle" /\ ~Terminal(calls'[c])) =>
               /\ calls'[c].pc = "fetch"
               /\ calls'[c].attempt = 0
               /\ calls'[c].fetches = 1
          /\ Terminal(calls[c]) =>
               /\ calls'[c].fetches = calls[c].fetches
               /\ calls'[c].waits = calls[c].waits
               /\ calls'[c].outcome = calls[c].outcome]_vars
  /\ \A c \in LiveIds :
       (calls[c].pc # "idle" /\ HasBudget(calls[c])) ~> Terminal(calls[c])

\* a call with the largest retry count failed after retries + 1 attempts and as
\* many waits as retries
C27_Witness ==
  \E c \in LiveIds :
    /\ calls[c].outcome = "fail"
    /\ calls[c].retries = Num(MaxRetries)
    /\ calls[c].fetches = MaxRetries + 1
    /\ Len(calls[c].waits) = MaxRetries

----------------------------------------------------------------------------
(* Classification of a transported body *)

\* the error of the current attempt came from fromApiResponse
ClassifiedAsApiError(r) ==
  /\ r.body # Undef
  /\ Len(r.errs) >= r.attempt + 1
  /\ r.errs[r.attempt + 1].cause = "api"

\* C28: a transported body is classified as an API error only if it is an object
\* with an `error` sub-object or with a top-level `Message` field; every other body,
\* one whose `error` field holds a non-object value included, proceeds to response
\* shape validation and, if it satisfies the shape, is returned as the success
\* payload.
C28_OnlyEnvelopesAreApiErrors ==
  \A c \in DOMAIN calls :
    LET r == calls[c]
    IN /\ ClassifiedAsApiError(r) => MatchesEnvelope(r.body)
       /\ (r.body # Undef /\ ~MatchesEnvelope(r.body)) =>
            /\ Len(r.validated) > 0
            /\ Last(r.validated) = r.body
            /\ Parse(r.responseSchema, r.body).ok =>
                 /\ r.outcome = "ok"
                 /\ r.result = Parse(r.responseSchema, r.body).value

----------------------------------------------------------------------------
(* The retry count as a budget *)

\* C29: for every effective retry count (configured or overridden, negative values
\* and a value left undefined by the configuration included), a call whose
\* parameters validate makes at least one Transport attempt, and a failed call
\* always surfaces a defined error value that is the error of an attempt actually
\* made.
C29_AtLeastOneAttempt ==
  \A c \in DOMAIN calls :
    LET r == calls[c]
    IN (r.pc # "idle" /\ Parse(r.args.payloadSchema, r.args.payload).ok) =>
         /\ r.fetches >= 1
         /\ r.outcome = "fail" =>
              /\ r.thrown # NoError
              /\ \E i \in 1..Len(r.errs) : r.errs[i] = r.thrown

----------------------------------------------------------------------------
(* Defined tunables *)

\* C30: after any sequence of successful construction and update calls, partials
\* that carry a field explicitly set to undefined included, every tunable returned
\* by getConfig() and the getters (baseUrl, language, currency, timeout, retries,
\* retryDelay) has a defined value.
C30_TunablesAlwaysDefined ==
  /\ config # NoConfig => \A key \in DefaultedKeys : Field(config, key) # Undef
  /\ held.has => \A key \in DefaultedKeys : Field(held.value, key) # Undef

----------------------------------------------------------------------------
(* One encoded request per call *)

\* the call has left request(): it is in the retry loop or has ended
Started(r) == r.pc # "idle"

\* C31: all Transport attempts of one call use the identical URL, method and
\* headers: the URL is encoded once, before the first attempt, and is never rebuilt
\* between retries, so no attempt of the call carries a credential or parameter
\* different from the first attempt's.
C31_AttemptsShareOneRequest ==
  /\ [](\A c \in DOMAIN calls :
          LET r == calls[c]
          IN /\ r.encoded <= 1
             /\ Len(r.sent) > 0 => r.encoded = 1
             /\ \A i \in 1..Len(r.sent) :
                  /\ r.sent[i].url = r.sent[1].url
                  /\ r.sent[i].method = r.sent[1].method
                  /\ r.sent[i].headers = r.sent[1].headers
                  /\ PairsOf(r.sent[i].url) = PairsOf(r.sent[1].url)
                  /\ PairsOf(r.sent[i].url)[1].v = EncChars(r.startCfg["apiKey"].s))
  /\ [][\A c \in DOMAIN calls :
          Started(calls[c])
          => /\ calls'[c].url = calls[c].url
             /\ calls'[c].method = calls[c].method
             /\ calls'[c].headers = calls[c].headers
             /\ calls'[c].encoded = calls[c].encoded
             /\ \A i \in 1..Len(calls[c].sent) : calls'[c].sent[i] = calls[c].sent[i]]_vars

\* a call with custom headers makes its second attempt after the credential and the
\* base address of the stored configuration changed: the attempt carries the URL,
\* the method and the headers of the first one
C31_Witness ==
  \E c \in DOMAIN calls :
    LET r == calls[c]
    IN /\ Len(r.sent) = 2
       /\ r.args.options = HeaderOptions
       /\ r.sent[2].live["apiKey"] # r.startCfg["apiKey"]
       /\ r.sent[2].live["baseUrl"] # r.startCfg["baseUrl"]
       /\ r.sent[2].url = r.sent[1].url
       /\ r.sent[2].headers = r.sent[1].headers
       /\ PairsOf(r.sent[2].url)[1].v = EncChars(S_k1)
       /\ r.encoded = 1

----------------------------------------------------------------------------
(* The timeout timer of an attempt *)

\* the fetch of the current attempt is pending
InFlight(r) == r.pc = "fetch"

\* C32: each Transport attempt arms exactly one timeout timer and disarms it when
\* the fetch settles, whether it resolves or rejects: after an attempt has settled
\* its timer can no longer fire an abort, at most one timeout timer of a call is
\* armed at any time, and when the call reaches a terminal outcome no timeout timer
\* of that call is pending.
C32_OneTimerPerAttempt ==
  /\ [](\A c \in DOMAIN calls :
          /\ InFlight(calls[c]) => calls[c].timer
          /\ calls[c].timer => InFlight(calls[c])
          /\ Terminal(calls[c]) => ~calls[c].timer /\ ~ENABLED TimeoutFire(c))
  /\ [][\A c \in DOMAIN calls :
          /\ calls'[c].fetches = calls[c].fetches + 1 => ~calls[c].timer /\ calls'[c].timer
          /\ calls'[c].fetches = calls[c].fetches => (calls'[c].timer => calls[c].timer)
          /\ (InFlight(calls[c]) /\ ~InFlight(calls'[c])) => ~calls'[c].timer]_vars

\* a call whose first fetch rejected and whose second fetch resolved has ended with
\* no timer pending
C32_Witness ==
  \E c \in DOMAIN calls :
    LET r == calls[c]
    IN /\ Terminal(r)
       /\ r.fetches = 2
       /\ Len(r.errs) >= 1
       /\ r.errs[1].cause = "connection"
       /\ r.body # Undef
       /\ ~r.timer

----------------------------------------------------------------------------
(* Parameter validation and encoding of the client's calls *)

\* z.object({ searchQuery: z.string(), key: z.string().optional() }): a shape with
\* a field named like the credential's query key
KeyShape == <<Required(K_searchQuery, "string"), Optional(S_key, "string")>>

\* request() with a `key` field that the shape does not declare, and with one
\* that it declares
ParamRequests ==
  {[shape |-> PayloadShape,
    payload |-> Obj(<<KV(K_searchQuery, Str(S_Paris)), KV(S_key, Str("other"))>>)],
   [shape |-> KeyShape,
    payload |-> Obj(<<KV(K_searchQuery, Str(S_Paris)), KV(S_key, Str("other"))>>)]}

\* locationSearch without language, with language, and with a field that
\* LocationSearchPayloadSchema does not declare
ParamSearchPayloads ==
  {Obj(<<KV(K_searchQuery, Str(S_Paris))>>),
   Obj(<<KV(K_searchQuery, Str(S_Paris)), KV(K_language, Str(S_fr))>>),
   Obj(<<KV(K_searchQuery, Str(S_Paris)), KV("extra", Str("x"))>>)}

\* locationDetails with neither, one or both of language and currency
ParamDetailsPayloads ==
  {Obj(<<>>),
   Obj(<<KV(K_language, Str(S_fr))>>),
   Obj(<<KV(K_currency, Str("EUR"))>>),
   Obj(<<KV(K_language, Str(S_fr)), KV(K_currency, Str("EUR"))>>)}

\* updateConfig({ language }) and updateConfig({ currency })
LocaleUpdates == {[language |-> Str(S_fr)], [currency |-> Str("EUR")]}

InitParams == InitFrom({Undef}, {[apiKey |-> Str(S_k1)]}, {"a", "b"})

NextParams ==
  \/ \E c \in DOMAIN calls, payload \in ParamSearchPayloads : LocationSearch(c, payload)
  \/ \E c \in DOMAIN calls, id \in LocationIds, payload \in ParamDetailsPayloads :
       LocationDetails(c, id, payload)
  \/ \E c \in DOMAIN calls, q \in ParamRequests :
       Request(c, S_locationSearch, q.payload, q.shape, ResponseShape, NoConfig)
  \/ \E updates \in LocaleUpdates : UpdateConfig(updates)

\* two calls up to their first fetch, with updates of the default language and
\* currency around them
SpecParams == InitParams /\ [][NextParams]_vars

\* the shape declares a field of this name
Declares(shape, key) == \E i \in 1..Len(shape) : shape[i].k = key

\* the arguments of the URL's query that carry the name key
ArgsNamed(url, key) == {j \in 1..Len(PairsOf(url)) : PairsOf(url)[j].k = key}

\* C33: parameter validation lets fields that the shape does not declare pass
\* through unchanged: an extra unknown field supplied by the caller is present with
\* its value in the validated value that the request encoder receives (and so in
\* the query string the encoder builds from it).
C33_UnknownFieldsPassThrough ==
  \A c \in DOMAIN calls :
    LET r == calls[c]
    IN r.encoded > 0
       => \A i \in 1..Len(r.args.payload.o) :
            LET f == r.args.payload.o[i]
            IN ~Declares(r.args.payloadSchema, f.k)
               => /\ HasKey(Validated(r).o, f.k)
                  /\ Lookup(Validated(r).o, f.k) = f.v
                  /\ \E j \in ArgsNamed(r.url, f.k) :
                       PairsOf(r.url)[j].v = EncChars(ToChars(f.v))

\* C34: for every validated parameter set, whatever its field names, the encoded
\* query string contains the reserved key `key` exactly once, as its first
\* argument, and its value is the configured credential.
C34_KeyExactlyOnce ==
  \A c \in DOMAIN calls :
    LET r == calls[c]
    IN r.encoded > 0
       => /\ PairsOf(r.url)[1] = [k |-> S_key, v |-> EncChars(r.startCfg["apiKey"].s)]
          /\ ArgsNamed(r.url, S_key) = {1}

\* the calls were made with the same parameters under the same credential and
\* base address
SameParameters(r, s) ==
  /\ r.args.endpoint = s.args.endpoint
  /\ r.args.payload = s.args.payload
  /\ r.args.payloadSchema = s.args.payloadSchema
  /\ r.startCfg["apiKey"] = s.startCfg["apiKey"]
  /\ r.startCfg["baseUrl"] = s.startCfg["baseUrl"]

\* C35: the configured default language and currency never enter a request: the
\* query string of every call consists only of the credential and the fields of
\* the validated parameter value, so an update of language or currency leaves the
\* URL of a subsequent call with the same parameters unchanged.
C35_LocaleDefaultsNeverSent ==
  \A c \in DOMAIN calls :
    LET r == calls[c]
        fields == SelectSeq(Validated(r).o, Present)
    IN r.encoded > 0
       => /\ PairsOf(r.url) =
               <<[k |-> S_key, v |-> EncChars(r.startCfg["apiKey"].s)]>>
               \o [i \in 1..Len(fields) |->
                     [k |-> EncChars(fields[i].k), v |-> EncChars(ToChars(fields[i].v))]]
          /\ \A d \in DOMAIN calls :
               (calls[d].encoded > 0 /\ SameParameters(r, calls[d]))
               => calls[d].url = r.url

\* locationDetails({}) was called before and after the default language and
\* currency were updated to fr and EUR: both URLs are the same and carry the
\* defaults of the payload schema
C35_Witness ==
  /\ calls["a"].encoded > 0
  /\ calls["b"].encoded > 0
  /\ calls["a"].client.api = "details"
  /\ calls["a"].args.payload = Obj(<<>>)
  /\ SameParameters(calls["a"], calls["b"])
  /\ Field(calls["a"].startCfg, "language") = Str(S_en)
  /\ Field(calls["a"].startCfg, "currency") = Str(S_USD)
  /\ Field(calls["b"].startCfg, "language") = Str(S_fr)
  /\ Field(calls["b"].startCfg, "currency") = Str("EUR")
  /\ calls["b"].url = calls["a"].url
  /\ Len(PairsOf(calls["b"].url)) = 3
  /\ PairsOf(calls["b"].url)[2] = [k |-> "language", v |-> S_en]
  /\ PairsOf(calls["b"].url)[3] = [k |-> "currency", v |-> S_USD]

\* the values the URL's query carries under the name key
SentValues(url, key) == {PairsOf(url)[j].v : j \in ArgsNamed(url, key)}

\* the defaults that the payload schemas of locationSearch and locationDetails
\* declare: language 'en' for both, currency 'USD' for the details
DeclaredDefault(api, key) ==
  IF key = K_language THEN S_en
  ELSE IF key = K_currency /\ api = "details" THEN S_USD
  ELSE ""

\* C36: declared defaults are applied to absent fields before encoding: a location
\* search called without `language` sends language=en, and a location details call
\* without `language` or `currency` sends language=en and currency=USD, while a
\* field supplied by the caller keeps the caller's value.
C36_DefaultsAppliedBeforeEncoding ==
  \A c \in DOMAIN calls :
    LET r == calls[c]
    IN (r.encoded > 0 /\ r.client.api \in {"search", "details"})
       => \A i \in 1..Len(r.args.payloadSchema) :
            LET key == r.args.payloadSchema[i].k
                given == Get(r.args.payload, key)
            IN SentValues(r.url, key) =
                 IF given # Undef THEN {EncChars(ToChars(given))}
                 ELSE IF DeclaredDefault(r.client.api, key) # ""
                   THEN {DeclaredDefault(r.client.api, key)}
                 ELSE {}

\* locationSearch({ searchQuery: 'Paris' }) has sent language=en, and
\* locationDetails(id, { currency: 'EUR' }) has sent language=en with currency=EUR
C36_Witness ==
  /\ calls["a"].encoded > 0
  /\ calls["a"].client.api = "search"
  /\ ~HasKey(calls["a"].args.payload.o, K_language)
  /\ SentValues(calls["a"].url, K_language) = {S_en}
  /\ SentValues(calls["a"].url, K_searchQuery) = {S_Paris}
  /\ calls["b"].encoded > 0
  /\ calls["b"].client.api = "details"
  /\ calls["b"].args.payload = Obj(<<KV(K_currency, Str("EUR"))>>)
  /\ SentValues(calls["b"].url, K_language) = {S_en}
  /\ SentValues(calls["b"].url, K_currency) = {"EUR"}

----------------------------------------------------------------------------
(* Loading the module *)

\* a faulty variant: loading the module constructs nothing
LoadModule_Lazy(envKey) ==
  [config |-> NoConfig,
   cfgOp |-> [op |-> "load", arg |-> NoConfig, threw |-> FALSE, before |-> NoConfig]]

\* the evaluation of the client module: `export const tripAdvisorClient = new
\* TripAdvisorClient()` runs the ConfigManager constructor without a partial; an
\* exception it throws fails the load
LoadModule(envKey) ==
  [config |-> Construct(NoConfig, envKey).config,
   cfgOp |-> [Construct(NoConfig, envKey).cfgOp EXCEPT !.op = "load"]]

\* the module was evaluated to its end: its exports exist
Loaded == ~(cfgOp.op = "load" /\ cfgOp.threw)

\* the ConfigManager that `new TripAdvisorClient(partial)` made last: it is a
\* function of the recorded argument and of the environment
ExplicitConfig == Construct(cfgOp.arg, env).config

\* a program that imported the module evaluates `new TripAdvisorClient(partial)`;
\* the default client is another object and keeps its configuration
NewClient(partial) ==
  /\ Loaded
  /\ cfgOp' = [Construct(partial, env).cfgOp EXCEPT !.before = config]
  /\ UNCHANGED <<env, config, calls, held, probe>>

\* in SpecLoad config is the ConfigManager of the default client
InitLoad ==
  /\ env \in Envs
  /\ config = LoadModule(env).config
  /\ cfgOp = LoadModule(env).cfgOp
  /\ calls = [c \in LiveIds |-> IdleCall]
  /\ held = NoHeld
  /\ probe = NoProbe

NextLoad ==
  \/ \E partial \in InitPartials : NewClient(partial)
  \/ \E updates \in LocaleUpdates : Loaded /\ UpdateConfig(updates)
  \/ \E c \in DOMAIN calls, payload \in ParamSearchPayloads :
       Loaded /\ LocationSearch(c, payload)

\* the module is loaded under every environment; a program that could import it
\* constructs clients of its own and uses the default client
SpecLoad == InitLoad /\ [][NextLoad]_vars

\* C37: loading the library module constructs the default client from the
\* environment credential alone: when TRIPADVISOR_API_KEY is unset at load time,
\* the load fails with ConfigurationError before any client with an explicit
\* credential can be constructed; when it is set, the default client's credential
\* equals the environment value.
C37_LoadBuildsDefaultClientFromEnv ==
  /\ ~Truthy(env)
     => /\ cfgOp.op = "load"
        /\ cfgOp.threw
        /\ config = NoConfig
        /\ \A partial \in InitPartials : ~ENABLED NewClient(partial)
        /\ \A c \in DOMAIN calls : calls[c].pc = "idle"
  /\ Truthy(env)
     => /\ Loaded
        /\ Field(config, "apiKey") = env
        /\ \A c \in DOMAIN calls :
             calls[c].encoded > 0
             => PairsOf(calls[c].url)[1] = [k |-> S_key, v |-> EncChars(env.s)]

\* with TRIPADVISOR_API_KEY = 'env-key' the module was loaded, a client was then
\* constructed with the credential 'k1', and the default client sent a search
\* under key=env-key
C37_Witness ==
  /\ env = Str(S_envKey)
  /\ cfgOp.op = "new"
  /\ ~cfgOp.threw
  /\ Field(ExplicitConfig, "apiKey") = Str(S_k1)
  /\ Field(config, "apiKey") = Str(S_envKey)
  /\ \E c \in DOMAIN calls :
       /\ calls[c].encoded > 0
       /\ SentValues(calls[c].url, S_key) = {S_envKey}

====
